---- MODULE Spec2Model ----
(***************************************************************************)
(* Hydration reminder bot: the two-stage water-intake parser               *)
(* (lib/parser.ts), the fallback client (lib/llm.ts), the IST clock        *)
(* (lib/time.ts) and the handler that stores what the parser returns       *)
(* (index.ts).                                                             *)
(*                                                                         *)
(* Text is modelled at character level: a string is a sequence of          *)
(* one-character strings, and every regular expression of the source is    *)
(* an operator that matches on those characters (leftmost match, greedy    *)
(* quantifiers, \b word boundaries).  Time is counted in whole minutes     *)
(* since 2026-01-01T00:00:00Z; all modelled instants lie in January 2026.  *)
(***************************************************************************)
EXTENDS Integers, Sequences, FiniteSets, TLC

VARIABLES
  text,          \* the message text being handled (sequence of characters)
  prefs,         \* the user's preferences row
  apiKey,        \* TRUE iff env.OPENAI_API_KEY is configured
  now,           \* Date.now(), in minutes
  callTime,      \* the instant parseWaterInput was called
  pc,            \* position of the handling task
  fetchOutcome,  \* what the fetch of extractWaterIntent settled to
  llmResult,     \* what extractWaterIntent returned (LLMExtractionResult)
  parseResult,   \* what parseWaterInput returned (ParseResult)
  llmCalls,      \* number of calls of extractWaterIntent
  netRequests,   \* number of fetch() requests issued to the completion endpoint
  raised,        \* TRUE iff an exception escaped extractWaterIntent / parseWaterInput
  water_logs,    \* rows of the water_logs table, in insertion (id) order
  reply,         \* the reply sent for the message ("none" before it is sent)
  request,       \* the last webhook request received by the fetch handler
  env,           \* TELEGRAM_BOT_TOKEN and TELEGRAM_WEBHOOK_SECRET: configured or not
  response,      \* status of the response to the last request (0 before any)
  route,         \* the branch handleTelegramUpdate took for the last update
  cron,          \* the cron expression of the last scheduled event ("none" before any)
  sent,          \* the kinds of messages the last scheduled event sent
  canonicalUser, \* TRUE iff getCanonicalUser finds a user
  tasks,         \* the handleTelegramUpdate tasks running concurrently (ctx.waitUntil)
  vrIn,          \* argument of the last validateRetroactiveTime call (minutes)
  vrOut          \* its result

vars == << text, prefs, apiKey, now, callTime, pc, fetchOutcome, llmResult, parseResult,
           llmCalls, netRequests, raised, water_logs, reply, request, env, response, route,
           cron, sent, canonicalUser, tasks, vrIn, vrOut >>

\* the variables of the webhook: only Fetch and HandleTelegramUpdate change them
webVars == << request, env, response, route >>

\* the variables of the scheduled handler: only Scheduled changes them
cronVars == << cron, sent, canonicalUser >>

\* no task is running
NoTasks == << >>

\* before any request, and a deployment with the bot token and no webhook secret
NoRequest == [ method |-> "none" ]
TokenOnlyEnv == [ TELEGRAM_BOT_TOKEN |-> TRUE, TELEGRAM_WEBHOOK_SECRET |-> FALSE ]

(***************************************************************************)
(* Characters and strings                                                  *)
(***************************************************************************)
Digits == << "0", "1", "2", "3", "4", "5", "6", "7", "8", "9" >>

LowerLetters == << "a", "b", "c", "d", "e", "f", "g", "h", "i", "j", "k", "l", "m",
                   "n", "o", "p", "q", "r", "s", "t", "u", "v", "w", "x", "y", "z" >>

UpperLetters == << "A", "B", "C", "D", "E", "F", "G", "H", "I", "J", "K", "L", "M",
                   "N", "O", "P", "Q", "R", "S", "T", "U", "V", "W", "X", "Y", "Z" >>

Range(f) == { f[i] : i \in DOMAIN f }

DigitChars == Range(Digits)
UpperChars == Range(UpperLetters)

\* \w of a JavaScript regular expression: [A-Za-z0-9_]
WordChars == Range(Digits) \cup Range(LowerLetters) \cup Range(UpperLetters) \cup { "_" }

IsDigit(c) == c \in DigitChars

IsWordChar(c) == c \in WordChars

\* \s : the only white space of the modelled messages is the blank
IsSpace(c) == c = " "

\* String.prototype.toLowerCase on one character
LowerOf ==
  [ c \in UpperChars |-> LowerLetters[CHOOSE i \in DOMAIN UpperLetters : UpperLetters[i] = c] ]

LowerChar(c) == IF c \in UpperChars THEN LowerOf[c] ELSE c

toLowerCase(s) == [i \in DOMAIN s |-> LowerChar(s[i])]

DigitValueOf == [ c \in DigitChars |-> (CHOOSE i \in DOMAIN Digits : Digits[i] = c) - 1 ]

DigitValue(c) == DigitValueOf[c]

Pow10(k) == IF k = 0 THEN 1 ELSE IF k = 1 THEN 10 ELSE IF k = 2 THEN 100
            ELSE IF k = 3 THEN 1000 ELSE IF k = 4 THEN 10000 ELSE 100000

\* parseInt(ds, 10) of a non-empty run of decimal digits
RECURSIVE parseInt(_)
parseInt(ds) ==
  IF Len(ds) = 0 THEN 0
  ELSE 10 * parseInt(SubSeq(ds, 1, Len(ds) - 1)) + DigitValue(ds[Len(ds)])

\* String(n) for a natural number n
RECURSIVE NumToString(_)
NumToString(n) ==
  IF n < 10 THEN << Digits[n + 1] >>
  ELSE NumToString(n \div 10) \o << Digits[(n % 10) + 1] >>

\* String(n).padStart(2, '0')
padStart2(n) == IF n < 10 THEN << "0" >> \o NumToString(n) ELSE NumToString(n)

\* lexicographic order of two strings of the same alphabet (SQLite BINARY
\* collation on ASCII text): the characters used in timestamps are ordered
\* as in ASCII: '+' < '-' < digits < ':' < 'T'
CharOrd(c) ==
  IF c = "+" THEN 43 ELSE IF c = "-" THEN 45
  ELSE IF IsDigit(c) THEN 48 + DigitValue(c)
  ELSE IF c = ":" THEN 58 ELSE IF c = "T" THEN 84 ELSE 0

RECURSIVE StrLess(_, _)
StrLess(a, b) ==
  IF Len(b) = 0 THEN FALSE
  ELSE IF Len(a) = 0 THEN TRUE
  ELSE IF CharOrd(a[1]) # CharOrd(b[1]) THEN CharOrd(a[1]) < CharOrd(b[1])
  ELSE StrLess(Tail(a), Tail(b))

StrGeq(a, b) == ~StrLess(a, b)

(***************************************************************************)
(* Regular-expression primitives.  A position p in 0..Len(s) is the number *)
(* of characters already consumed; the next character is s[p+1].           *)
(***************************************************************************)
NoMatch == 0 - 1

\* the literal lit occurs in s right after position p
LitAt(s, p, lit) ==
  /\ p >= 0
  /\ p + Len(lit) <= Len(s)
  /\ \A i \in 1..Len(lit) : s[p + i] = lit[i]

\* \b at position p
Boundary(s, p) ==
  LET left  == p >= 1 /\ IsWordChar(s[p])
      right == p < Len(s) /\ IsWordChar(s[p + 1])
  IN  left # right

SetMax(S) == CHOOSE x \in S : \A y \in S : y <= x
SetMin(S) == CHOOSE x \in S : \A y \in S : x <= y

\* end of the greedy \d* run that starts after p (p itself when there is none)
RECURSIVE DigitsEnd(_, _)
DigitsEnd(s, p) == IF p < Len(s) /\ IsDigit(s[p + 1]) THEN DigitsEnd(s, p + 1) ELSE p

\* end of the greedy \s* run that starts after p
RECURSIVE SpaceEnd(_, _)
SpaceEnd(s, p) == IF p < Len(s) /\ IsSpace(s[p + 1]) THEN SpaceEnd(s, p + 1) ELSE p

\* (?:a|b|...) followed by \b: the end of the first alternative, in the
\* order written, that matches after p and ends on a word boundary
AltBoundaryEnd(s, p, alts) ==
  LET ok == { k \in DOMAIN alts : LitAt(s, p, alts[k]) /\ Boundary(s, p + Len(alts[k])) }
  IN  IF ok = {} THEN NoMatch ELSE p + Len(alts[SetMin(ok)])

\* String.prototype.includes
includes(s, lit) == \E p \in 0..Len(s) : LitAt(s, p, lit)

\* the leftmost position at which M matches, or NoMatch
FirstMatch(s, M(_, _)) ==
  LET ps == { p \in 0..Len(s) : M(s, p) }
  IN  IF ps = {} THEN NoMatch ELSE SetMin(ps)

(***************************************************************************)
(* Values of optional (JSON / TypeScript) fields: undefined, null, a       *)
(* number, a string or a boolean, all of one record shape so that any two  *)
(* can be compared.                                                        *)
(***************************************************************************)
JUndef   == [t |-> "undefined", n |-> 0]
JNull    == [t |-> "null", n |-> 0]
JNum(x)  == [t |-> "number", n |-> x]
JStr     == [t |-> "string", n |-> 0]
JBool(b) == [t |-> "boolean", n |-> IF b THEN 1 ELSE 0]

IsNumber(v) == v.t = "number"

\* JavaScript truthiness of such a value (a modelled string value is non-empty)
Truthy(v) ==
  \/ v.t = "number" /\ v.n # 0
  \/ v.t = "boolean" /\ v.n = 1
  \/ v.t = "string"

\* an absent string field
Undefined == "undefined"

\* an absent timestamp (a timestamp is never the empty string)
NoTime == << >>

(***************************************************************************)
(* lib/time.ts                                                             *)
(***************************************************************************)
\* IST_OFFSET_MS = 5.5 * 60 * 60 * 1000, in minutes
IST_OFFSET_MIN == 330

MinutesPerDay == 1440

\* nowIST(): the Date whose UTC fields read as IST wall-clock time
nowIST(t) == t + IST_OFFSET_MIN

\* Date.UTC(y, m, d) of a shifted Date: its instant cut down to 00:00
StartOfUTCDay(d) == (d \div MinutesPerDay) * MinutesPerDay

\* variant: the day boundary is taken on the UTC clock, not the IST clock
todayMidnightIST_UTCDay(t) == StartOfUTCDay(t)

\* todayMidnightIST(): midnight of the IST day, as a shifted Date
todayMidnightIST(t) == StartOfUTCDay(nowIST(t))

\* yesterdayMidnightIST()
yesterdayMidnightIST(t) == todayMidnightIST(t) - MinutesPerDay

\* `${year}-${month}-${day}` of a shifted Date in January 2026
DatePart(d) == << "2", "0", "2", "6", "-", "0", "1", "-" >> \o padStart2((d \div MinutesPerDay) + 1)

\* toISTString(date): YYYY-MM-DDTHH:mm:ss+05:30
toISTString(t) ==
  LET istDate == t + IST_OFFSET_MIN
      hours   == (istDate % MinutesPerDay) \div 60
      minutes == istDate % 60
  IN  DatePart(istDate) \o << "T" >> \o padStart2(hours) \o << ":" >> \o padStart2(minutes)
        \o << ":", "0", "0", "+", "0", "5", ":", "3", "0" >>

\* nowISTString()
nowISTString(t) == toISTString(t)

\* todayMidnightISTString()
todayMidnightISTString(t) == DatePart(nowIST(t)) \o << "T", "0", "0", ":", "0", "0", ":", "0", "0", "+", "0", "5", ":", "3", "0" >>

\* yesterdayMidnightISTString()
yesterdayMidnightISTString(t) ==
  DatePart(yesterdayMidnightIST(t) + IST_OFFSET_MIN) \o << "T", "0", "0", ":", "0", "0", ":", "0", "0", "+", "0", "5", ":", "3", "0" >>

\* the retroactive window of validateRetroactiveTime, in minutes (12 hours)
MaxRetroMinutes == 720

\* variant: the offset limit is kept and the same-day check dropped
validateRetroactiveTime_NoDayCheck(offsetMin, t) ==
  IF offsetMin > MaxRetroMinutes \/ offsetMin < 0 THEN NoTime
  ELSE toISTString(t - offsetMin)

\* validateRetroactiveTime(offsetHours), the offset given in minutes
\* (offsetHours = offsetMin / 60); NoTime stands for null
validateRetroactiveTime(offsetMin, t) ==
  IF offsetMin > MaxRetroMinutes \/ offsetMin < 0 THEN NoTime
  ELSE LET targetTime       == t - offsetMin
           todayMidnight    == todayMidnightIST(t)
           todayMidnightUTC == todayMidnight - IST_OFFSET_MIN
       IN  IF targetTime < todayMidnightUTC THEN NoTime
           ELSE toISTString(targetTime)

\* no offset: parseRelativeOffset returned null
NoOffset == 0 - 1

hoursAgoAt(s, p) ==
  LET e  == DigitsEnd(s, p)
      w  == SpaceEnd(s, e)
      h  == IF LitAt(s, w, << "h", "o", "u", "r", "s" >>) THEN w + 5
            ELSE IF LitAt(s, w, << "h", "o", "u", "r" >>) THEN w + 4 ELSE NoMatch
  IN  e > p /\ h # NoMatch /\ LitAt(s, SpaceEnd(s, h), << "a", "g", "o" >>)

minutesAgoAt(s, p) ==
  LET e  == DigitsEnd(s, p)
      w  == SpaceEnd(s, e)
      ms == { w + Len(u) : u \in { x \in {<< "m", "i", "n", "u", "t", "e", "s" >>, << "m", "i", "n", "u", "t", "e" >>, << "m", "i", "n", "s" >>, << "m", "i", "n" >>} : LitAt(s, w, x) } }
  IN  e > p /\ \E m \in ms : LitAt(s, SpaceEnd(s, m), << "a", "g", "o" >>)

\* parseRelativeOffset(relativeTime): the offset in minutes ("N hours ago" is
\* N * 60, "N minutes ago" is N), NoOffset for null
parseRelativeOffset(relativeTime) ==
  IF relativeTime = << >> THEN NoOffset
  ELSE LET lower == toLowerCase(relativeTime)
           hp    == FirstMatch(lower, hoursAgoAt)
           mp    == FirstMatch(lower, minutesAgoAt)
       IN  IF hp # NoMatch
             THEN parseInt(SubSeq(lower, hp + 1, DigitsEnd(lower, hp))) * 60
           ELSE IF mp # NoMatch
             THEN parseInt(SubSeq(lower, mp + 1, DigitsEnd(lower, mp)))
           ELSE NoOffset

(***************************************************************************)
(* lib/parser.ts, stage 1: parseWaterInputRegex                            *)
(***************************************************************************)
\* the sanity ceiling of one parsed amount, in ml
MaxAmountMl == 10000

\* the fields of a ParseResult (types.ts); an absent field is JUndef,
\* Undefined or NoTime
EmptyResult ==
  [ success |-> FALSE, intent |-> Undefined, amount_ml |-> JUndef, log_time |-> NoTime,
    needs_clarification |-> JUndef, clarification_prompt |-> Undefined,
    adjust_by_ml |-> JUndef, undo_count |-> JUndef, chitchat_reply |-> Undefined ]

\* { success: true, amount_ml, log_time: nowISTString() }
RegexLog(amount, t) ==
  [EmptyResult EXCEPT !.success = TRUE, !.amount_ml = JNum(amount),
                      !.log_time = nowISTString(t)]

\* { success: false }
RegexMiss == EmptyResult

\* /(\d+)\s*ml\b/
mlMatchAt(s, p) ==
  LET e == DigitsEnd(s, p)
      w == SpaceEnd(s, e)
  IN  e > p /\ LitAt(s, w, << "m", "l" >>) /\ Boundary(s, w + 2)

LiterUnits == << << "l" >>, << "l", "i", "t", "e", "r" >>, << "l", "i", "t", "e", "r", "s" >>, << "l", "i", "t", "r", "e" >>, << "l", "i", "t", "r", "e", "s" >> >>

\* end of (\d+(?:\.\d+)?) started after p: the decimal part is taken when present
DecimalEnd(s, p) ==
  LET e == DigitsEnd(s, p)
  IN  IF e > p /\ LitAt(s, e, << "." >>) /\ DigitsEnd(s, e + 1) > e + 1
        THEN DigitsEnd(s, e + 1) ELSE e

\* /(\d+(?:\.\d+)?)\s*(?:l|liter|liters|litre|litres)\b/
literMatchAt(s, p) ==
  LET e == DecimalEnd(s, p)
      w == SpaceEnd(s, e)
  IN  e > p /\ AltBoundaryEnd(s, w, LiterUnits) # NoMatch

\* Math.round(parseFloat(ds) * 1000) of a decimal numeral ds = "i" or "i.f"
LitersToMl(ds) ==
  LET dot == { i \in DOMAIN ds : ds[i] = "." }
  IN  IF dot = {} THEN parseInt(ds) * 1000
      ELSE LET d    == SetMin(dot)
               int  == parseInt(SubSeq(ds, 1, d - 1))
               frac == SubSeq(ds, d + 1, Len(ds))
               k    == Len(frac)
           IN  int * 1000 + ((2 * 1000 * parseInt(frac) + Pow10(k)) \div (2 * Pow10(k)))

\* optional "a" and white space: (?:a\s*)?
OptionalA(s, w) == IF LitAt(s, w, << "a" >>) THEN SpaceEnd(s, w + 1) ELSE w

\* /(?:half|1\/2)\s*(?:a\s*)?bottle/
halfBottleMatchAt(s, p) ==
  \E h \in { << "h", "a", "l", "f" >>, << "1", "/", "2" >> } :
    /\ LitAt(s, p, h)
    /\ LitAt(s, OptionalA(s, SpaceEnd(s, p + Len(h))), << "b", "o", "t", "t", "l", "e" >>)

\* /(?:quarter|1\/4)\s*(?:a\s*)?bottle/
quarterBottleMatchAt(s, p) ==
  \E q \in { << "q", "u", "a", "r", "t", "e", "r" >>, << "1", "/", "4" >> } :
    /\ LitAt(s, p, q)
    /\ LitAt(s, OptionalA(s, SpaceEnd(s, p + Len(q))), << "b", "o", "t", "t", "l", "e" >>)

\* /(\d+)\s*bottles?\b/
numericBottleMatchAt(s, p) ==
  LET e == DigitsEnd(s, p)
      w == SpaceEnd(s, e)
  IN  /\ e > p
      /\ LitAt(s, w, << "b", "o", "t", "t", "l", "e" >>)
      /\ \/ LitAt(s, w + 6, << "s" >>) /\ Boundary(s, w + 7)
         \/ Boundary(s, w + 6)

\* /(?:one|a|1)?\s*bottle\b/
singleBottleMatchAt(s, p) ==
  \E q \in {p} \cup { p + Len(a) : a \in { x \in { << "o", "n", "e" >>, << "a" >>, << "1" >> } : LitAt(s, p, x) } } :
    LET w == SpaceEnd(s, q)
    IN  LitAt(s, w, << "b", "o", "t", "t", "l", "e" >>) /\ Boundary(s, w + 6)

\* /(\d+)?\s*(?:a\s*)?glass(?:es)?\b/
glassMatchAt(s, p) ==
  LET e == DigitsEnd(s, p)
      g == OptionalA(s, SpaceEnd(s, e))
  IN  /\ LitAt(s, g, << "g", "l", "a", "s", "s" >>)
      /\ \/ LitAt(s, g + 5, << "e", "s" >>) /\ Boundary(s, g + 7)
         \/ Boundary(s, g + 5)

\* /(\d+)?\s*(?:a\s*)?cups?\b/
cupMatchAt(s, p) ==
  LET e == DigitsEnd(s, p)
      c == OptionalA(s, SpaceEnd(s, e))
  IN  /\ LitAt(s, c, << "c", "u", "p" >>)
      /\ \/ LitAt(s, c + 3, << "s" >>) /\ Boundary(s, c + 4)
         \/ Boundary(s, c + 3)

\* match[1] of a pattern that starts with (\d+): the digits captured at p
Group1(s, p) == SubSeq(s, p + 1, DigitsEnd(s, p))

\* glassMatch[1] ? parseInt(glassMatch[1], 10) : 1
CountOrOne(s, p) == IF Group1(s, p) = << >> THEN 1 ELSE parseInt(Group1(s, p))

\* Math.round(prefs.bottle_size_ml * 0.5) and Math.round(prefs.bottle_size_ml * 0.25)
RoundHalf(b) == (b + 1) \div 2
RoundQuarter(b) == (b + 2) \div 4

\* patterns 7 and 8 (glasses, cups) and the final { success: false }
RegexGlassCup(lower, t) ==
  LET gp == FirstMatch(lower, glassMatchAt)
      cp == FirstMatch(lower, cupMatchAt)
  IN  IF gp # NoMatch /\ CountOrOne(lower, gp) > 0 /\ CountOrOne(lower, gp) <= 20
        THEN RegexLog(250 * CountOrOne(lower, gp), t)
      ELSE IF cp # NoMatch /\ CountOrOne(lower, cp) > 0 /\ CountOrOne(lower, cp) <= 20
        THEN RegexLog(200 * CountOrOne(lower, cp), t)
      ELSE RegexMiss

\* patterns 3 to 6 (bottles), then the rest
RegexBottle(lower, p, t) ==
  LET np == FirstMatch(lower, numericBottleMatchAt)
  IN  IF FirstMatch(lower, halfBottleMatchAt) # NoMatch
        THEN RegexLog(RoundHalf(p.bottle_size_ml), t)
      ELSE IF FirstMatch(lower, quarterBottleMatchAt) # NoMatch
        THEN RegexLog(RoundQuarter(p.bottle_size_ml), t)
      ELSE IF np # NoMatch /\ parseInt(Group1(lower, np)) > 0
                           /\ parseInt(Group1(lower, np)) <= 10
        THEN RegexLog(p.bottle_size_ml * parseInt(Group1(lower, np)), t)
      ELSE IF /\ FirstMatch(lower, singleBottleMatchAt) # NoMatch
              /\ ~includes(lower, << "h", "a", "l", "f" >>)
              /\ ~includes(lower, << "q", "u", "a", "r", "t", "e", "r" >>)
        THEN RegexLog(p.bottle_size_ml, t)
      ELSE RegexGlassCup(lower, t)

\* parseWaterInputRegex(text, prefs), called at instant t
parseWaterInputRegex(txt, p, t) ==
  LET lower == toLowerCase(txt)
      mp    == FirstMatch(lower, mlMatchAt)
      lp    == FirstMatch(lower, literMatchAt)
      ml    == parseInt(Group1(lower, mp))
      lit   == LitersToMl(SubSeq(lower, lp + 1, DecimalEnd(lower, lp)))
  IN  IF mp # NoMatch /\ ml > 0 /\ ml <= MaxAmountMl THEN RegexLog(ml, t)
      ELSE IF lp # NoMatch /\ lit > 0 /\ lit <= MaxAmountMl THEN RegexLog(lit, t)
      ELSE RegexBottle(lower, p, t)

TimeCues == << << "a", "g", "o" >>, << "e", "a", "r", "l", "i", "e", "r" >>, << "b", "e", "f", "o", "r", "e" >>, << "m", "o", "r", "n", "i", "n", "g" >>, << "a", "f", "t", "e", "r", "n", "o", "o", "n" >>, << "e", "v", "e", "n", "i", "n", "g" >>,
               << "h", "o", "u", "r" >>, << "m", "i", "n", "u", "t", "e" >> >>

\* variant: the alternation lacks "ago" and "earlier"
TIME_PHRASE_REGEX_FewerCues(txt) ==
  LET s == toLowerCase(txt)
  IN  \E p \in 0..Len(s) :
        Boundary(s, p) /\ AltBoundaryEnd(s, p, SubSeq(TimeCues, 3, Len(TimeCues))) # NoMatch

\* TIME_PHRASE_REGEX.test(text): /\b(ago|earlier|before|morning|afternoon|evening|hour|minute)\b/i
TIME_PHRASE_REGEX(txt) ==
  LET s == toLowerCase(txt)
  IN  \E p \in 0..Len(s) : Boundary(s, p) /\ AltBoundaryEnd(s, p, TimeCues) # NoMatch

\* YESTERDAY_REGEX.test(text): /\b(yesterday|last night)\b/i
YESTERDAY_REGEX(txt) ==
  LET s == toLowerCase(txt)
  IN  \E p \in 0..Len(s) :
        Boundary(s, p) /\ AltBoundaryEnd(s, p, << << "y", "e", "s", "t", "e", "r", "d", "a", "y" >>, << "l", "a", "s", "t", " ", "n", "i", "g", "h", "t" >> >>) # NoMatch

(***************************************************************************)
(* lib/llm.ts: extractWaterIntent                                          *)
(***************************************************************************)
\* the prompts the code can produce (abbreviated texts)
GenericPrompt   == "I didn't quite catch that - how much water was it?"
OfflinePrompt   == "I didn't quite catch that - how much water was it? (Set OPENAI_API_KEY for natural language.)"
YesterdayPrompt == "I can only log water from today (up to 12 hours ago). I can't add yesterday's water to today's total"
EditPrompt      == "How much should I reduce by? (e.g. 500ml)"
RangePrompt     == "That doesn't seem quite right. How much water was it in ml?"
WhenPrompt      == "When did you drink that? I can only log water from today (up to 12 hours ago)."
WindowPrompt    == "I can only log water from today (up to 12 hours ago). Could you be more specific?"
\* a text written by the completion endpoint
LLMText         == "text written by the model"

validIntents == { "log", "clarify", "no_action", "edit", "query", "undo", "chitchat" }

\* the result returned when no credential is configured
OfflineResult ==
  [ intent |-> "clarify", amount_ml |-> JNull, relative_time |-> << >>, ambiguous |-> TRUE,
    clarification_needed |-> OfflinePrompt, adjust_by_ml |-> JUndef, undo_count |-> JUndef ]

\* createFallbackResult()
createFallbackResult ==
  [ intent |-> "clarify", amount_ml |-> JNull, relative_time |-> << >>, ambiguous |-> TRUE,
    clarification_needed |-> GenericPrompt, adjust_by_ml |-> JUndef, undo_count |-> JUndef ]

\* a thrown exception, as a value
Thrown == [ thrown |-> TRUE ]
Returned(v) == [ thrown |-> FALSE, value |-> v ]

\* the value JSON.parse yields for a well-formed JSON text, Thrown otherwise.
\* A JSON text is [json |-> "object", obj |-> fields], [json |-> "null"] or
\* [json |-> "invalid"].
JSONparse(j) == IF j.json = "invalid" THEN Thrown ELSE Returned(j)

\* parseJSONSafely(content).  A content is [wrap, body]: body is a JSON text
\* that stands alone ("raw"), inside a ``` fence ("fenced"), or inside prose
\* ("prose").  The result is the parsed value; [json |-> "null"] is null.
parseJSONSafely(content) ==
  LET direct    == IF content.wrap = "raw" THEN JSONparse(content.body) ELSE Thrown
      \* content.match(/```(?:json)?\s*([\s\S]*?)```/)
      jsonMatch == content.wrap = "fenced"
      \* content.match(/\{[\s\S]*\}/): an object text, well-formed or not, has braces
      objectMatch == content.body.json # "null"
      inner     == JSONparse(content.body)
  IN  IF ~direct.thrown THEN direct.value
      ELSE IF jsonMatch THEN (IF inner.thrown THEN [json |-> "null"] ELSE inner.value)
      ELSE IF objectMatch THEN (IF inner.thrown THEN [json |-> "null"] ELSE inner.value)
      ELSE [json |-> "null"]

\* variant: the intent of the completion is used as it comes
NormalizeParsed_KeepIntent(parsed) ==
  [ intent |-> parsed.intent,
    amount_ml |-> IF IsNumber(parsed.amount_ml) THEN parsed.amount_ml ELSE JNull,
    relative_time |-> parsed.relative_time,
    ambiguous |-> Truthy(parsed.ambiguous),
    clarification_needed |-> parsed.clarification_needed,
    adjust_by_ml |-> IF IsNumber(parsed.adjust_by_ml) THEN parsed.adjust_by_ml ELSE JNull,
    undo_count |-> IF IsNumber(parsed.undo_count) THEN parsed.undo_count ELSE JNull ]

\* lines 120-135: the parsed object normalised into an LLMExtractionResult
NormalizeParsed(parsed) ==
  [ intent |-> IF parsed.intent \in validIntents THEN parsed.intent
               ELSE IF Truthy(parsed.ambiguous) THEN "clarify" ELSE "log",
    amount_ml |-> IF IsNumber(parsed.amount_ml) THEN parsed.amount_ml ELSE JNull,
    relative_time |-> parsed.relative_time,
    ambiguous |-> Truthy(parsed.ambiguous),
    clarification_needed |-> parsed.clarification_needed,
    adjust_by_ml |-> IF IsNumber(parsed.adjust_by_ml) THEN parsed.adjust_by_ml ELSE JNull,
    undo_count |-> IF IsNumber(parsed.undo_count) THEN parsed.undo_count ELSE JNull ]

\* the body of the try block of extractWaterIntent once fetch has settled.
\* An outcome is [kind |-> "reject"] (a transport error), [kind |-> "timeout"]
\* (AbortSignal.timeout fires after 15 s and fetch rejects), [kind |-> "status"] (a non-success status), [kind |-> "badjson"]
\* (response.json() throws), [kind |-> "empty"] (no content) or
\* [kind |-> "content", content |-> c].
TryBody(outcome) ==
  IF outcome.kind \in { "reject", "timeout", "badjson" } THEN Thrown
  ELSE IF outcome.kind = "status" THEN Returned(createFallbackResult)
  ELSE IF outcome.kind = "empty" THEN Returned(createFallbackResult)
  ELSE LET parsed == parseJSONSafely(outcome.content)
       IN  IF parsed.json = "null" THEN Returned(createFallbackResult)
           ELSE Returned(NormalizeParsed(parsed.obj))

\* variant: no catch around the request and the parsing
extractWaterIntentSettled_NoCatch(outcome) == TryBody(outcome)

\* try { ... } catch (error) { return createFallbackResult(); }
extractWaterIntentSettled(outcome) ==
  LET r == TryBody(outcome)
  IN  IF r.thrown THEN Returned(createFallbackResult) ELSE r

(***************************************************************************)
(* lib/parser.ts, stage 2: parseWaterInputLLM after extractWaterIntent     *)
(***************************************************************************)
Clarify(prompt) ==
  [EmptyResult EXCEPT !.success = FALSE, !.needs_clarification = JBool(TRUE),
                      !.clarification_prompt = prompt]

IntentResult(intent) == [EmptyResult EXCEPT !.success = TRUE, !.intent = intent]

\* variant: the text of the outcome is ignored
OrElse_AlwaysDefault(a, b) == b

\* a || b on strings: b when a is undefined or empty
OrElse(a, b) == IF a = Undefined \/ a = "" THEN b ELSE a

\* x != null
NotNullish(v) == v.t # "null" /\ v.t # "undefined"

\* variant: the count is not capped at 10
UndoCount_NoClamp(r) ==
  IF NotNullish(r.undo_count) /\ r.undo_count.n >= 1 THEN r.undo_count.n ELSE 1

\* lines 190-193
UndoCount(r) ==
  IF NotNullish(r.undo_count) /\ r.undo_count.n >= 1
    THEN (IF r.undo_count.n < 10 THEN r.undo_count.n ELSE 10)
    ELSE 1

\* variant: the amount of the outcome is logged without the range check
LogBranch_NoRangeCheck(r, t) ==
  IF r.relative_time # << >>
    THEN LET offsetHours == parseRelativeOffset(r.relative_time)
         IN  IF offsetHours = NoOffset THEN Clarify(WhenPrompt)
             ELSE IF validateRetroactiveTime(offsetHours, t) = NoTime
               THEN Clarify(WindowPrompt)
             ELSE [IntentResult("log") EXCEPT !.amount_ml = r.amount_ml,
                      !.log_time = validateRetroactiveTime(offsetHours, t)]
  ELSE [IntentResult("log") EXCEPT !.amount_ml = r.amount_ml, !.log_time = nowISTString(t)]

\* variant: the time validateRetroactiveTime returns is used without the null check
LogBranch_NoNullCheck(r, t) ==
  IF r.amount_ml.n <= 0 \/ r.amount_ml.n > MaxAmountMl THEN Clarify(RangePrompt)
  ELSE IF r.relative_time # << >>
    THEN LET offsetHours == parseRelativeOffset(r.relative_time)
         IN  IF offsetHours = NoOffset THEN Clarify(WhenPrompt)
             ELSE [IntentResult("log") EXCEPT !.amount_ml = r.amount_ml,
                      !.log_time = validateRetroactiveTime(offsetHours, t)]
  ELSE [IntentResult("log") EXCEPT !.amount_ml = r.amount_ml, !.log_time = nowISTString(t)]

\* lines 216-255: intent log with a number amount
LogBranch(r, t) ==
  IF r.amount_ml.n <= 0 \/ r.amount_ml.n > MaxAmountMl THEN Clarify(RangePrompt)
  ELSE IF r.relative_time # << >>
    THEN LET offsetHours == parseRelativeOffset(r.relative_time)
         IN  IF offsetHours = NoOffset THEN Clarify(WhenPrompt)
             ELSE IF validateRetroactiveTime(offsetHours, t) = NoTime
               THEN Clarify(WindowPrompt)
             ELSE [IntentResult("log") EXCEPT !.amount_ml = r.amount_ml,
                      !.log_time = validateRetroactiveTime(offsetHours, t)]
  ELSE [IntentResult("log") EXCEPT !.amount_ml = r.amount_ml, !.log_time = nowISTString(t)]

\* variant: only the type of adjust_by_ml is checked, not its range
EditBranch_NoRangeCheck(r) ==
  IF ~IsNumber(r.adjust_by_ml) THEN Clarify(EditPrompt)
  ELSE [IntentResult("edit") EXCEPT !.adjust_by_ml = r.adjust_by_ml]

\* lines 196-206: intent edit
EditBranch(r) ==
  IF ~IsNumber(r.adjust_by_ml) \/ r.adjust_by_ml.n <= 0 \/ r.adjust_by_ml.n > MaxAmountMl
    THEN Clarify(EditPrompt)
    ELSE [IntentResult("edit") EXCEPT !.adjust_by_ml = r.adjust_by_ml]

\* variant: the test for an ambiguous or amount-less outcome comes before
\* the intents that carry no amount
parseWaterInputLLM_ClarifyFirst(txt, r, t) ==
  IF YESTERDAY_REGEX(txt) /\ (r.intent = "log" \/ NotNullish(r.amount_ml))
    THEN Clarify(YesterdayPrompt)
  ELSE IF r.intent = "clarify" \/ r.ambiguous \/ r.amount_ml.t = "null"
    THEN Clarify(OrElse(r.clarification_needed, GenericPrompt))
  ELSE IF r.intent = "no_action" THEN IntentResult("no_action")
  ELSE IF r.intent = "chitchat"
    THEN [IntentResult("chitchat") EXCEPT
            !.chitchat_reply = OrElse(r.clarification_needed, Undefined)]
  ELSE IF r.intent = "query" THEN IntentResult("query")
  ELSE IF r.intent = "undo"
    THEN [IntentResult("undo") EXCEPT !.undo_count = JNum(UndoCount(r))]
  ELSE IF r.intent = "edit" THEN EditBranch(r)
  ELSE LogBranch(r, t)

\* parseWaterInputLLM(text, env) from line 167 on: r is llmResult, t the instant
parseWaterInputLLM(txt, r, t) ==
  IF YESTERDAY_REGEX(txt) /\ (r.intent = "log" \/ NotNullish(r.amount_ml))
    THEN Clarify(YesterdayPrompt)
  ELSE IF r.intent = "no_action" THEN IntentResult("no_action")
  ELSE IF r.intent = "chitchat"
    THEN [IntentResult("chitchat") EXCEPT
            !.chitchat_reply = OrElse(r.clarification_needed, Undefined)]
  ELSE IF r.intent = "query" THEN IntentResult("query")
  ELSE IF r.intent = "undo"
    THEN [IntentResult("undo") EXCEPT !.undo_count = JNum(UndoCount(r))]
  ELSE IF r.intent = "edit" THEN EditBranch(r)
  ELSE IF r.intent = "clarify" \/ r.ambiguous \/ r.amount_ml.t = "null"
    THEN Clarify(OrElse(r.clarification_needed, GenericPrompt))
  ELSE LogBranch(r, t)

(***************************************************************************)
(* Inputs: the messages, preferences, instants and endpoint outcomes the   *)
(* model explores                                                          *)
(***************************************************************************)
\* two phrases joined by one blank
Join(a, b) == IF a = << >> THEN b ELSE IF b = << >> THEN a ELSE a \o << " " >> \o b

Prefixes == { << >>, << "I", " ", "d", "i", "d", "n", "'", "t", " ", "d", "r", "i", "n", "k" >>, << "r", "e", "d", "u", "c", "e", " ", "b", "y" >> }

Amounts ==
  { NumToString(n) \o << "m", "l" >> : n \in { 0, 1, 500, 10000, 10001 } }
    \cup { << "1", ".", "5", "L" >>, << "1", "1", " ", "l", "i", "t", "r", "e", "s" >> }
    \cup { << "h", "a", "l", "f", " ", "a", " ", "b", "o", "t", "t", "l", "e" >>, << "q", "u", "a", "r", "t", "e", "r", " ", "b", "o", "t", "t", "l", "e" >>, << "a", " ", "b", "o", "t", "t", "l", "e" >> }
    \cup { NumToString(n) \o << " ", "b", "o", "t", "t", "l", "e", "s" >> : n \in { 4, 11 } }
    \cup { << "1", "1", " ", "b", "o", "t", "t", "l", "e" >> }
    \cup { NumToString(n) \o << " ", "g", "l", "a", "s", "s", "e", "s" >> : n \in { 2, 21 } }
    \cup { << "a", " ", "c", "u", "p" >>, << "s", "o", "m", "e", " ", "w", "a", "t", "e", "r" >>, << >> }

Suffixes == { << >>, << "y", "e", "s", "t", "e", "r", "d", "a", "y" >>, << "L", "a", "s", "t", " ", "N", "i", "g", "h", "t" >>, << "2", " ", "h", "o", "u", "r", "s", " ", "a", "g", "o" >>, << "2", " ", "h", "o", "u", "r", "s", " ", "b", "a", "c", "k" >>, << "e", "a", "r", "l", "i", "e", "r" >> }

PlainMessages == { << "h", "i" >>, << "t", "h", "a", "t", " ", "w", "a", "s", " ", "a", " ", "m", "i", "s", "t", "a", "k", "e" >>, << "u", "n", "d", "o", " ", "l", "a", "s", "t", " ", "3" >>, << "s", "h", "o", "w", " ", "t", "o", "d", "a", "y", "'", "s", " ", "l", "o", "g", "s" >> }

Messages ==
  ({ Join(Join(p, a), s) : p \in Prefixes, a \in Amounts, s \in Suffixes } \ { << >> })
    \cup PlainMessages

\* bottle sizes parseBottleSizeResponse accepts: the smallest, the default, the largest
MinBottleSize == 100
DefaultBottleSize == 750
MaxBottleSize == 3000
DefaultTargetMl == 3500

BottleSizes == { MinBottleSize, DefaultBottleSize, MaxBottleSize }

UserPrefs(b) ==
  [ target_ml |-> DefaultTargetMl, bottle_size_ml |-> b, onboarding_complete |-> 1 ]

\* the instant (minutes since 2026-01-01T00:00Z) of an IST wall-clock time in January 2026
ISTInstant(day, h, m) == (day - 1) * MinutesPerDay + h * 60 + m - IST_OFFSET_MIN

\* 5 January 00:30, 12:00 and 23:59 IST
StartTimes == { ISTInstant(5, 0, 30), ISTInstant(5, 12, 0), ISTInstant(5, 23, 59) }

\* the longest a fetch is modelled to take, in minutes (the request is
\* aborted after 15 s, so it crosses at most one minute boundary)
MaxFetchMinutes == 1

RelativeTimes == { << "2", " ", "h", "o", "u", "r", "s", " ", "a", "g", "o" >>, << "1", "2", " ", "h", "o", "u", "r", "s", " ", "a", "g", "o" >>, << "1", "3", " ", "h", "o", "u", "r", "s", " ", "a", "g", "o" >>, << "3", "0", " ", "m", "i", "n", "u", "t", "e", "s", " ", "a", "g", "o" >>, << "e", "a", "r", "l", "i", "e", "r" >> }

\* the object a completion may hold: the fields extractWaterIntent reads
ParsedObject(intent, amount, rel, amb, clar, adjust, undo) ==
  [ intent |-> intent, amount_ml |-> amount, relative_time |-> rel, ambiguous |-> amb,
    clarification_needed |-> clar, adjust_by_ml |-> adjust, undo_count |-> undo ]

ParsedObjects ==
  { ParsedObject("log", a, << >>, JBool(amb), Undefined, JNull, JNull) :
      a \in { JNull, JStr, JNum(0), JNum(500), JNum(10001) }, amb \in BOOLEAN }
  \cup { ParsedObject("not an intent", a, << >>, JBool(a = JNull), Undefined, JNull, JNull) :
           a \in { JNull, JNum(500) } }
  \cup { ParsedObject("log", JNum(500), rel, JBool(FALSE), Undefined, JNull, JNull) :
           rel \in RelativeTimes }
  \cup { ParsedObject(Undefined, JNum(500), << >>, amb, Undefined, JNull, JNull) :
           amb \in { JUndef, JStr } }
  \cup { ParsedObject(i, a, << >>, JBool(amb), Undefined, JNull, JNull) :
           i \in { "no_action", "chitchat", "query", "clarify" }, a \in { JNull, JNum(500) },
           amb \in BOOLEAN }
  \cup { ParsedObject(i, JNull, << >>, JBool(i = "clarify"), LLMText, JNull, JNull) :
           i \in { "chitchat", "clarify" } }
  \cup { ParsedObject("undo", JNull, << >>, JBool(FALSE), Undefined, JNull, u) :
           u \in { JNull, JNum(0), JNum(1), JNum(3), JNum(10), JNum(11) } }
  \cup { ParsedObject("edit", JNull, << >>, JBool(FALSE), Undefined, adj, JNull) :
           adj \in { JNull, JStr, JNum(0), JNum(500), JNum(10000), JNum(10001) } }
  \cup { ParsedObject("edit", JNum(500), << >>, JBool(FALSE), Undefined, adj, JNull) :
           adj \in { JNull, JNum(500) } }

ObjectText(o) == [ json |-> "object", obj |-> o ]

\* what the fetch of extractWaterIntent can settle to
Outcomes ==
  { [kind |-> k] : k \in { "reject", "timeout", "status", "badjson", "empty" } }
  \cup { [kind |-> "content", content |-> [wrap |-> w, body |-> [json |-> j]]] :
           w \in { "raw", "fenced", "prose" }, j \in { "null", "invalid" } }
  \cup { [kind |-> "content", content |-> [wrap |-> "raw", body |-> ObjectText(o)]] :
           o \in ParsedObjects }
  \cup { [kind |-> "content",
          content |-> [wrap |-> w,
                       body |-> ObjectText(ParsedObject("log", JNum(500), << >>, JBool(FALSE),
                                                        Undefined, JNull, JNull))]] :
           w \in { "fenced", "prose" } }

(***************************************************************************)
(* index.ts: handleWaterIntake, and lib/db.ts                              *)
(***************************************************************************)
\* insertWaterLog: one row appended to water_logs
insertWaterLog(logs, amount, logTime, raw) ==
  Append(logs, [ amount_ml |-> amount, log_time |-> logTime, input_raw |-> raw ])

\* the rows ORDER BY log_time DESC, id DESC: row i comes before row j
Later(logs, i, j) ==
  \/ StrLess(logs[j].log_time, logs[i].log_time)
  \/ logs[j].log_time = logs[i].log_time /\ i > j

\* deleteLastLogs: the rows left after the first `count` rows in that order are deleted
deleteLastLogs(logs, count) ==
  IF count < 1 THEN logs
  ELSE LET doomed == { i \in DOMAIN logs :
                         Cardinality({ j \in DOMAIN logs : Later(logs, j, i) }) < count }
           keep(i) == i \notin doomed
           RECURSIVE Filter(_)
           Filter(i) == IF i > Len(logs) THEN << >>
                        ELSE (IF keep(i) THEN << logs[i] >> ELSE << >>) \o Filter(i + 1)
       IN  Filter(1)

\* SUM(amount_ml) of rows
RECURSIVE SumAmounts(_)
SumAmounts(logs) ==
  IF logs = << >> THEN 0 ELSE Head(logs).amount_ml + SumAmounts(Tail(logs))

\* getTodayTotal at instant t: WHERE log_time >= todayMidnightISTString()
getTodayTotal(logs, t) ==
  LET today(row) == StrGeq(row.log_time, todayMidnightISTString(t))
  IN  SumAmounts(SelectSeq(logs, today))

\* variant: yesterday's rows are every row from yesterday's midnight on
getYesterdayTotal_NoUpperBound(logs, t) ==
  LET yesterday(row) == StrGeq(row.log_time, yesterdayMidnightISTString(t))
  IN  SumAmounts(SelectSeq(logs, yesterday))

\* getYesterdayTotal at instant t: WHERE log_time >= yesterday's midnight
\* AND log_time < today's midnight
getYesterdayTotal(logs, t) ==
  LET yesterday(row) == /\ StrGeq(row.log_time, yesterdayMidnightISTString(t))
                        /\ StrLess(row.log_time, todayMidnightISTString(t))
  IN  SumAmounts(SelectSeq(logs, yesterday))

\* getTodayLogs at instant t: the positions of the rows WHERE log_time >= todayMidnightISTString()
getTodayLogs(logs, t) ==
  { i \in DOMAIN logs : StrGeq(logs[i].log_time, todayMidnightISTString(t)) }

\* parseResult.intent ?? 'log'
IntentOf(r) == IF r.intent = Undefined THEN "log" ELSE r.intent

\* parseResult.undo_count ?? 1
UndoArg(r) == IF r.undo_count.t = "undefined" THEN 1 ELSE r.undo_count.n

\* variant: a result without success is stored like a log
HandledLogs_NoSuccessCheck(logs, r, txt, t) ==
  IF IntentOf(r) \in { "no_action", "chitchat", "query" } THEN logs
  ELSE IF IntentOf(r) = "undo"
    THEN deleteLastLogs(logs, UndoArg(r))
  ELSE IF IntentOf(r) = "edit"
    THEN insertWaterLog(logs, 0 - r.adjust_by_ml.n, nowISTString(t),
                        << "r", "e", "d", "u", "c", "e", " ", "b", "y", " " >>
                          \o NumToString(r.adjust_by_ml.n) \o << "m", "l" >>)
  ELSE insertWaterLog(logs, r.amount_ml.n, r.log_time, txt)

\* the rows of water_logs after handleWaterIntake has acted on parse result r at instant t
HandledLogs(logs, r, txt, t) ==
  IF ~r.success THEN logs
  ELSE IF IntentOf(r) \in { "no_action", "chitchat", "query" } THEN logs
  ELSE IF IntentOf(r) = "undo"
    THEN deleteLastLogs(logs, UndoArg(r))
  ELSE IF IntentOf(r) = "edit"
    THEN insertWaterLog(logs, 0 - r.adjust_by_ml.n, nowISTString(t),
                        << "r", "e", "d", "u", "c", "e", " ", "b", "y", " " >>
                          \o NumToString(r.adjust_by_ml.n) \o << "m", "l" >>)
  ELSE insertWaterLog(logs, r.amount_ml.n, r.log_time, txt)

\* the reply handleWaterIntake sends
HandledReply(logs, r) ==
  IF ~r.success THEN "clarificationReply"
  ELSE IF IntentOf(r) = "no_action" THEN "noActionReply"
  ELSE IF IntentOf(r) = "chitchat" THEN "chitchatReply"
  ELSE IF IntentOf(r) = "query" THEN "queryReply"
  ELSE IF IntentOf(r) = "undo"
    THEN (IF Len(deleteLastLogs(logs, UndoArg(r))) = Len(logs)
            THEN "undoNothingReply" ELSE "undoReply")
  ELSE IF IntentOf(r) = "edit" THEN "editReply"
  ELSE "successReply"

(***************************************************************************)
(* The handling of one message by an onboarded user: parseWaterInput       *)
(* (with its await of the completion endpoint) and handleWaterIntake       *)
(***************************************************************************)
NoLLMResult == [ intent |-> "none" ]
NoOutcome == [ kind |-> "none" ]

Init ==
  /\ text \in Messages
  /\ prefs \in { UserPrefs(b) : b \in BottleSizes }
  /\ apiKey \in BOOLEAN
  /\ now \in StartTimes
  /\ callTime = now
  /\ pc = "start"
  /\ fetchOutcome = NoOutcome
  /\ llmResult = NoLLMResult
  /\ parseResult = EmptyResult
  /\ llmCalls = 0
  /\ netRequests = 0
  /\ raised = FALSE
  /\ water_logs = << >>
  /\ reply = "none"
  /\ vrIn = 0
  /\ vrOut = NoTime
  /\ request = NoRequest
  /\ env = TokenOnlyEnv
  /\ response = 0
  /\ route = "none"
  /\ cron = "none"
  /\ sent = {}
  /\ canonicalUser = TRUE
  /\ tasks = NoTasks

\* variant: the deterministic result never short-circuits the fallback
ParseWaterInput_AlwaysFallback ==
  /\ pc = "start"
  /\ parseResult' = parseResult
  /\ pc' = "extract"
  /\ llmCalls' = llmCalls + 1
  /\ callTime' = now
  /\ UNCHANGED << text, prefs, apiKey, now, fetchOutcome, llmResult, netRequests, raised,
                  water_logs, reply, vrIn, vrOut, webVars, cronVars, tasks >>

\* parseWaterInput up to its return or its call of parseWaterInputLLM
ParseWaterInput ==
  /\ pc = "start"
  /\ LET hasTimeReference == TIME_PHRASE_REGEX(text)
         regexResult      == parseWaterInputRegex(text, prefs, now)
     IN  IF regexResult.success /\ ~hasTimeReference
           THEN /\ parseResult' = regexResult
                /\ pc' = "parsed"
                /\ llmCalls' = llmCalls
           ELSE /\ parseResult' = parseResult
                /\ pc' = "extract"
                /\ llmCalls' = llmCalls + 1
  /\ callTime' = now
  /\ UNCHANGED << text, prefs, apiKey, now, fetchOutcome, llmResult, netRequests, raised,
                  water_logs, reply, vrIn, vrOut, webVars, cronVars, tasks >>

\* variant: the request is sent whether or not a credential is configured
ExtractWaterIntent_NoKeyCheck ==
  /\ pc = "extract"
  /\ netRequests' = netRequests + 1
  /\ pc' = "fetch"
  /\ UNCHANGED << text, prefs, apiKey, now, callTime, fetchOutcome, llmCalls, raised,
                  water_logs, reply, vrIn, vrOut, llmResult, parseResult, webVars, cronVars, tasks >>

\* extractWaterIntent up to its offline return or its fetch
ExtractWaterIntent ==
  /\ pc = "extract"
  /\ IF ~apiKey
       THEN /\ llmResult' = OfflineResult
            /\ parseResult' = parseWaterInputLLM(text, OfflineResult, now)
            /\ pc' = "parsed"
            /\ netRequests' = netRequests
       ELSE /\ netRequests' = netRequests + 1
            /\ pc' = "fetch"
            /\ UNCHANGED << llmResult, parseResult >>
  /\ UNCHANGED << text, prefs, apiKey, now, callTime, fetchOutcome, llmCalls, raised,
                  water_logs, reply, vrIn, vrOut, webVars, cronVars, tasks >>

\* variant: a request that failed or timed out is sent once more
FetchSettles_RetryOnFailure ==
  /\ pc = "fetch"
  /\ \E outcome \in Outcomes, d \in 0..MaxFetchMinutes :
       LET r == extractWaterIntentSettled(outcome)
       IN  /\ now' = now + d
           /\ fetchOutcome' = outcome
           /\ raised' = raised
           /\ IF outcome.kind \in { "reject", "timeout", "status" } /\ netRequests < 2
                THEN /\ netRequests' = netRequests + 1
                     /\ pc' = "fetch"
                     /\ UNCHANGED << llmResult, parseResult >>
                ELSE /\ netRequests' = netRequests
                     /\ llmResult' = r.value
                     /\ parseResult' = parseWaterInputLLM(text, r.value, now + d)
                     /\ pc' = "parsed"
  /\ UNCHANGED << text, prefs, apiKey, callTime, llmCalls, water_logs, reply, vrIn, vrOut, webVars, cronVars, tasks >>

\* the fetch settles; extractWaterIntent returns and parseWaterInputLLM goes on
FetchSettles ==
  /\ pc = "fetch"
  /\ \E outcome \in Outcomes, d \in 0..MaxFetchMinutes :
       LET r == extractWaterIntentSettled(outcome)
       IN  /\ now' = now + d
           /\ fetchOutcome' = outcome
           /\ IF r.thrown
                THEN /\ raised' = TRUE
                     /\ pc' = "raised"
                     /\ UNCHANGED << llmResult, parseResult >>
                ELSE /\ raised' = raised
                     /\ llmResult' = r.value
                     /\ parseResult' = parseWaterInputLLM(text, r.value, now + d)
                     /\ pc' = "parsed"
  /\ UNCHANGED << text, prefs, apiKey, callTime, llmCalls, netRequests, water_logs,
                  reply, vrIn, vrOut, webVars, cronVars, tasks >>

\* handleWaterIntake from line 272 on
HandleWaterIntake ==
  /\ pc = "parsed"
  /\ water_logs' = HandledLogs(water_logs, parseResult, text, now)
  /\ reply' = HandledReply(water_logs, parseResult)
  /\ pc' = "handled"
  /\ UNCHANGED << text, prefs, apiKey, now, callTime, fetchOutcome, llmResult, parseResult,
                  llmCalls, netRequests, raised, vrIn, vrOut, webVars, cronVars, tasks >>

Next ==
  \/ ParseWaterInput
  \/ ExtractWaterIntent
  \/ FetchSettles
  \/ HandleWaterIntake

Spec == Init /\ [][Next]_vars

(***************************************************************************)
(* validateRetroactiveTime on its own: the clock runs over two IST days    *)
(* and the function is called with offsets around its limits               *)
(***************************************************************************)
\* the clock of this specification starts at 5 January 00:00 IST and
\* advances by TickMinutes, MaxTicks times
TickMinutes == 90
MaxTicks == 32

\* offsets in minutes: below zero, zero, inside the window, the 12 h limit, beyond it
RetroOffsets == { 0 - 60, 0 - 1, 0, 1, 30, 120, 719, MaxRetroMinutes, MaxRetroMinutes + 1, 780 }

TimeInit ==
  /\ text = << >>
  /\ prefs = UserPrefs(DefaultBottleSize)
  /\ apiKey = FALSE
  /\ now = ISTInstant(5, 0, 0)
  /\ callTime = now
  /\ pc = "clock"
  /\ fetchOutcome = NoOutcome
  /\ llmResult = NoLLMResult
  /\ parseResult = EmptyResult
  /\ llmCalls = 0
  /\ netRequests = 0
  /\ raised = FALSE
  /\ water_logs = << >>
  /\ reply = "none"
  /\ vrIn = 0
  /\ vrOut = NoTime
  /\ request = NoRequest
  /\ env = TokenOnlyEnv
  /\ response = 0
  /\ route = "none"
  /\ cron = "none"
  /\ sent = {}
  /\ canonicalUser = TRUE
  /\ tasks = NoTasks

ClockTick ==
  /\ now < ISTInstant(5, 0, 0) + MaxTicks * TickMinutes
  /\ now' = now + TickMinutes
  /\ pc' = "clock"
  /\ UNCHANGED << text, prefs, apiKey, callTime, fetchOutcome, llmResult, parseResult,
                  llmCalls, netRequests, raised, water_logs, reply, vrIn, vrOut, webVars, cronVars, tasks >>

ValidateRetroactiveTime ==
  /\ \E h \in RetroOffsets :
       /\ vrIn' = h
       /\ vrOut' = validateRetroactiveTime(h, now)
  /\ pc' = "validated"
  /\ UNCHANGED << text, prefs, apiKey, now, callTime, fetchOutcome, llmResult, parseResult,
                  llmCalls, netRequests, raised, water_logs, reply, webVars, cronVars, tasks >>

TimeNext ==
  \/ ClockTick
  \/ ValidateRetroactiveTime

SpecTime == TimeInit /\ [][TimeNext]_vars

(***************************************************************************)
(* lib/parser.ts: containsExcludedBeverage and parseBottleSizeResponse     *)
(***************************************************************************)
EXCLUDED_KEYWORDS ==
  << << "c", "o", "f", "f", "e", "e" >>, << "t", "e", "a" >>, << "l", "a", "t", "t", "e" >>, << "c", "a", "p", "p", "u", "c", "c", "i", "n", "o" >>, << "e", "s", "p", "r", "e", "s", "s", "o" >>, << "s", "o", "d", "a" >>, << "c", "o", "k", "e" >>, << "c", "o", "l", "a" >>,
     << "j", "u", "i", "c", "e" >>, << "b", "e", "e", "r" >>, << "w", "i", "n", "e" >>, << "a", "l", "c", "o", "h", "o", "l" >> >>

\* new RegExp(`\\b${keyword}\\b`, 'i').test(lower) for some keyword
containsExcludedBeverage(txt) ==
  LET lower == toLowerCase(txt)
  IN  \E k \in DOMAIN EXCLUDED_KEYWORDS :
        \E p \in 0..Len(lower) :
          /\ Boundary(lower, p)
          /\ LitAt(lower, p, EXCLUDED_KEYWORDS[k])
          /\ Boundary(lower, p + Len(EXCLUDED_KEYWORDS[k]))

\* String.prototype.trim
trim(s) ==
  LET ink == { i \in DOMAIN s : ~IsSpace(s[i]) }
  IN  IF ink = {} THEN << >> ELSE SubSeq(s, SetMin(ink), SetMax(ink))

\* /^(?:yes|yeah|yep|yup|correct|ok|okay|sure|right)$/i
Affirmatives ==
  { << "y", "e", "s" >>, << "y", "e", "a", "h" >>, << "y", "e", "p" >>, << "y", "u", "p" >>, << "c", "o", "r", "r", "e", "c", "t" >>, << "o", "k" >>, << "o", "k", "a", "y" >>, << "s", "u", "r", "e" >>, << "r", "i", "g", "h", "t" >> }

\* /(\d+)\s*ml/i, without a closing word boundary
sizeMlMatchAt(s, p) ==
  LET e == DigitsEnd(s, p)
  IN  e > p /\ LitAt(s, SpaceEnd(s, e), << "m", "l" >>)

\* /(\d+(?:\.\d+)?)\s*(?:l|liter|litre)/i: every alternative starts with "l"
sizeLiterMatchAt(s, p) ==
  LET e == DecimalEnd(s, p)
  IN  e > p /\ LitAt(s, SpaceEnd(s, e), << "l" >>)

\* parseBottleSizeResponse returns null
NoBottleSize == 0 - 1

InBottleRange(size) == size >= MinBottleSize /\ size <= MaxBottleSize

\* parseBottleSizeResponse(text)
parseBottleSizeResponse(txt) ==
  LET lower == trim(toLowerCase(txt))
      mlAt  == FirstMatch(lower, sizeMlMatchAt)
      mlSize == parseInt(Group1(lower, mlAt))
      lAt   == FirstMatch(lower, sizeLiterMatchAt)
      lSize == LitersToMl(SubSeq(lower, lAt + 1, DecimalEnd(lower, lAt)))
      justNumber == lower # << >> /\ DigitsEnd(lower, 0) = Len(lower)
  IN  IF lower \in Affirmatives THEN DefaultBottleSize
      ELSE IF mlAt # NoMatch /\ InBottleRange(mlSize) THEN mlSize
      ELSE IF lAt # NoMatch /\ InBottleRange(lSize) THEN lSize
      ELSE IF justNumber /\ InBottleRange(parseInt(lower)) THEN parseInt(lower)
      ELSE NoBottleSize

(***************************************************************************)
(* lib/telegram.ts: the payload of a webhook request                       *)
(***************************************************************************)
\* A request body is [kind, text].  kind "unparseable": request.json()
\* throws; "notobject": null or a scalar; "noupdateid": an object without a
\* numeric update_id; "nomessage": an update of another type; "badmessage":
\* a message without a numeric chat id; "notext": a message without text;
\* "text": a message with the text given.
NoUpdate == [ valid |-> FALSE, text |-> << >> ]

\* parseTelegramPayload(body): NoUpdate stands for null
parseTelegramPayload(body) ==
  IF body.kind \in { "notobject", "noupdateid", "badmessage" } THEN NoUpdate
  ELSE IF body.kind = "text" THEN [ valid |-> TRUE, text |-> body.text ]
  ELSE [ valid |-> TRUE, text |-> << >> ]

\* extractMessageData(update) is null: no message, or no (or an empty) text
extractMessageDataIsNull(update) == update.text = << >>
(***************************************************************************)
(* index.ts: the fetch handler                                             *)
(***************************************************************************)
\* the try block of fetch: the response and the update handed to ctx.waitUntil
fetchTry(req) ==
  IF req.body.kind = "unparseable" THEN Thrown
  ELSE LET update == parseTelegramPayload(req.body)
       IN  Returned([ status |-> 200, update |-> update ])

\* variant: no try / catch around the parsing of the body, the runtime
\* answers an uncaught exception with status 500
fetchHandler_NoCatch(req, e) ==
  IF req.method # "POST" THEN [ status |-> 405, update |-> NoUpdate ]
  ELSE IF e.TELEGRAM_WEBHOOK_SECRET /\ req.secret # "right"
    THEN [ status |-> 403, update |-> NoUpdate ]
  ELSE IF ~e.TELEGRAM_BOT_TOKEN THEN [ status |-> 200, update |-> NoUpdate ]
  ELSE IF fetchTry(req).thrown THEN [ status |-> 500, update |-> NoUpdate ]
  ELSE fetchTry(req).value

\* fetch(request, env, ctx): req.secret is the X-Telegram-Bot-Api-Secret-Token
\* header: "none", "right" (equal to env.TELEGRAM_WEBHOOK_SECRET) or "wrong"
fetchHandler(req, e) ==
  IF req.method # "POST" THEN [ status |-> 405, update |-> NoUpdate ]
  ELSE IF e.TELEGRAM_WEBHOOK_SECRET /\ req.secret # "right"
    THEN [ status |-> 403, update |-> NoUpdate ]
  ELSE IF ~e.TELEGRAM_BOT_TOKEN THEN [ status |-> 200, update |-> NoUpdate ]
  ELSE IF fetchTry(req).thrown THEN [ status |-> 200, update |-> NoUpdate ]
  ELSE fetchTry(req).value

(***************************************************************************)
(* index.ts: handleTelegramUpdate and handleOnboardingResponse             *)
(***************************************************************************)
StartCommand == << "/", "s", "t", "a", "r", "t" >>

\* variant: the excluded-beverage check is missing
Route_NoBeverageCheck(p, txt) ==
  IF txt = StartCommand THEN "start"
  ELSE IF p.onboarding_complete = 0 THEN "onboarding"
  ELSE "intake"

\* variant: the onboarding guard is missing
Route_NoOnboardingGuard(p, txt) ==
  IF txt = StartCommand THEN "start"
  ELSE IF containsExcludedBeverage(txt) THEN "excluded"
  ELSE "intake"

\* lines 204-228: the branch taken for a text message of user p
Route(p, txt) ==
  IF txt = StartCommand THEN "start"
  ELSE IF p.onboarding_complete = 0 THEN "onboarding"
  ELSE IF containsExcludedBeverage(txt) THEN "excluded"
  ELSE "intake"

\* parseWaterInput as a function of what the fetch of extractWaterIntent
\* settles to (the outcome is not consulted when no request is sent)
parseWaterInputGiven(txt, p, key, outcome, t) ==
  LET hasTimeReference == TIME_PHRASE_REGEX(txt)
      regexResult      == parseWaterInputRegex(txt, p, t)
  IN  IF regexResult.success /\ ~hasTimeReference THEN regexResult
      ELSE IF ~key THEN parseWaterInputLLM(txt, OfflineResult, t)
      ELSE parseWaterInputLLM(txt, extractWaterIntentSettled(outcome).value, t)

\* what one run of handleTelegramUpdate leaves behind: the user's row, the
\* rows of water_logs, the reply sent, the branch taken and the parse result
Handled(p, logs, rep, branch, result) ==
  [ prefs |-> p, logs |-> logs, reply |-> rep, route |-> branch, parseResult |-> result ]

\* handleWaterIntake once parseWaterInput has returned result
handleWaterIntake(p, logs, txt, result, t) ==
  Handled(p, HandledLogs(logs, result, txt, t), HandledReply(logs, result), "intake", result)

\* handleOnboardingResponse
handleOnboardingResponse(p, logs, txt) ==
  LET bottleSize == parseBottleSizeResponse(txt)
  IN  IF bottleSize # NoBottleSize
        THEN Handled([p EXCEPT !.bottle_size_ml = bottleSize, !.onboarding_complete = 1],
                     logs, "bottleConfirmedReply", "onboarding", EmptyResult)
        ELSE Handled(p, logs, "bottleSizePrompt", "onboarding", EmptyResult)

\* variant: /start resets the onboarding state and keeps the water logs
handleTelegramUpdate_StartKeepsLogs(p, logs, txt, key, outcome, dbOk, t) ==
  IF txt = << >> THEN Handled(p, logs, "none", "ignored", EmptyResult)
  ELSE IF ~dbOk THEN Handled(p, logs, "errorReply", "error", EmptyResult)
  ELSE IF Route(p, txt) = "start"
    THEN Handled([p EXCEPT !.onboarding_complete = 0], logs, "welcomeReply", "start",
                 EmptyResult)
  ELSE IF Route(p, txt) = "onboarding" THEN handleOnboardingResponse(p, logs, txt)
  ELSE IF Route(p, txt) = "excluded"
    THEN Handled(p, logs, "coffeeReply", "excluded", EmptyResult)
  ELSE handleWaterIntake(p, logs, txt, parseWaterInputGiven(txt, p, key, outcome, t), t)

\* handleTelegramUpdate for an update with message text txt (<< >>: none).
\* dbOk is FALSE when getOrCreateUser throws.
handleTelegramUpdate(p, logs, txt, key, outcome, dbOk, t) ==
  IF txt = << >> THEN Handled(p, logs, "none", "ignored", EmptyResult)
  ELSE IF ~dbOk THEN Handled(p, logs, "errorReply", "error", EmptyResult)
  ELSE IF Route(p, txt) = "start"
    THEN Handled([p EXCEPT !.onboarding_complete = 0], << >>, "welcomeReply", "start",
                 EmptyResult)
  ELSE IF Route(p, txt) = "onboarding" THEN handleOnboardingResponse(p, logs, txt)
  ELSE IF Route(p, txt) = "excluded"
    THEN Handled(p, logs, "coffeeReply", "excluded", EmptyResult)
  ELSE handleWaterIntake(p, logs, txt, parseWaterInputGiven(txt, p, key, outcome, t), t)
(***************************************************************************)
(* The webhook: requests arrive at the fetch handler, which answers and    *)
(* hands the update to handleTelegramUpdate (ctx.waitUntil)                *)
(***************************************************************************)
\* the most rows water_logs is let to hold
MaxLogs == 2

\* a user as getOrCreateUser creates it
NewUser ==
  [ target_ml |-> DefaultTargetMl, bottle_size_ml |-> DefaultBottleSize,
    onboarding_complete |-> 0 ]

WebhookTexts ==
  { StartCommand, << "y", "e", "s" >>, << "1", " ", "l", "i", "t", "e", "r" >>, << "4", "L" >>, << "5", "0", "0", "m", "l" >>, << "2", " ", "g", "l", "a", "s", "s", "e", "s" >>, << "c", "o", "f", "f", "e", "e", " ", "5", "0", "0", "m", "l" >>,
    << "G", "r", "e", "e", "n", " ", "T", "E", "A" >>, << "s", "t", "e", "a", "m", " ", "5", "0", "0", "m", "l" >>, << "h", "i" >>, << "t", "h", "a", "t", " ", "w", "a", "s", " ", "a", " ", "m", "i", "s", "t", "a", "k", "e" >> }

WebhookBodies ==
  { [ kind |-> k, text |-> << >> ] :
      k \in { "unparseable", "notobject", "noupdateid", "nomessage", "badmessage", "notext" } }
    \cup { [ kind |-> "text", text |-> t ] : t \in WebhookTexts }

\* requests: every body by POST with the right secret header, and a few
\* requests by another method, with a wrong header or with none
Requests ==
  { [ method |-> "POST", secret |-> "right", body |-> b ] : b \in WebhookBodies }
    \cup { [ method |-> m, secret |-> s, body |-> [ kind |-> "text", text |-> << "5", "0", "0", "m", "l" >> ] ] :
             m \in { "POST", "GET" }, s \in { "none", "wrong" } }
    \cup { [ method |-> "POST", secret |-> "none",
             body |-> [ kind |-> "unparseable", text |-> << >> ] ] }

WebhookEnvs ==
  { [ TELEGRAM_BOT_TOKEN |-> tok, TELEGRAM_WEBHOOK_SECRET |-> sec ] :
      tok \in BOOLEAN, sec \in BOOLEAN }

\* what the completion endpoint may answer while an update is handled
WebhookOutcomes ==
  { [kind |-> "timeout"] }
    \cup { [kind |-> "content", content |-> [wrap |-> "raw", body |-> ObjectText(o)]] :
             o \in { ParsedObject("log", JNum(500), << >>, JBool(FALSE), Undefined, JNull, JNull),
                     ParsedObject("undo", JNull, << >>, JBool(FALSE), Undefined, JNull, JNum(1)),
                     ParsedObject("edit", JNull, << >>, JBool(FALSE), Undefined, JNum(500), JNull),
                     ParsedObject("chitchat", JNull, << >>, JBool(FALSE), LLMText, JNull, JNull) } }

WebhookInit ==
  /\ text = << >>
  /\ prefs = NewUser
  /\ apiKey \in BOOLEAN
  /\ now = ISTInstant(5, 12, 0)
  /\ callTime = now
  /\ pc = "idle"
  /\ fetchOutcome = NoOutcome
  /\ llmResult = NoLLMResult
  /\ parseResult = EmptyResult
  /\ llmCalls = 0
  /\ netRequests = 0
  /\ raised = FALSE
  /\ water_logs = << >>
  /\ reply = "none"
  /\ vrIn = 0
  /\ vrOut = NoTime
  /\ request = NoRequest
  /\ env \in WebhookEnvs
  /\ response = 0
  /\ route = "none"
  /\ cron = "none"
  /\ sent = {}
  /\ canonicalUser = TRUE
  /\ tasks = NoTasks

\* fetch for a request of reqs: the request is answered; a valid update is
\* handed to handleTelegramUpdate, which runs after the response
FetchFrom(reqs) ==
  /\ pc = "idle"
  /\ \E req \in reqs :
       \E r \in { fetchHandler(req, env) } :
         /\ request' = req
         /\ response' = r.status
         /\ text' = r.update.text
         /\ pc' = IF r.update.valid THEN "update" ELSE "idle"
  /\ UNCHANGED << prefs, apiKey, now, callTime, fetchOutcome, llmResult, parseResult,
                  llmCalls, netRequests, raised, water_logs, reply, env, route, vrIn, vrOut,
                  cronVars, tasks >>

\* handleTelegramUpdate, whole, the completion endpoint answering with one
\* of outcomes
HandleTelegramUpdateWith(outcomes) ==
  /\ pc = "update"
  /\ \E dbOk \in BOOLEAN, outcome \in outcomes :
       \E h \in { handleTelegramUpdate(prefs, water_logs, text, apiKey, outcome, dbOk, now) } :
         /\ Len(h.logs) <= MaxLogs
         /\ prefs' = h.prefs
         /\ water_logs' = h.logs
         /\ reply' = h.reply
         /\ route' = h.route
         /\ parseResult' = h.parseResult
  /\ pc' = "idle"
  /\ UNCHANGED << text, apiKey, now, callTime, fetchOutcome, llmResult, llmCalls,
                  netRequests, raised, request, env, response, vrIn, vrOut, cronVars, tasks >>

\* a request arrives; once water_logs is full only /start is explored
Fetch ==
  FetchFrom({ req \in Requests : Len(water_logs) < MaxLogs \/ req.body.text = StartCommand })

HandleTelegramUpdate == HandleTelegramUpdateWith(WebhookOutcomes)

WebhookNext ==
  \/ Fetch
  \/ HandleTelegramUpdate

SpecWebhook == WebhookInit /\ [][WebhookNext]_vars

(***************************************************************************)
(* The conversation of an onboarded user: messages that log, edit, undo,   *)
(* query or chat, handled one after the other                              *)
(***************************************************************************)
ChatTexts ==
  { << "5", "0", "0", "m", "l" >>, << "c", "o", "f", "f", "e", "e", " ", "5", "0", "0", "m", "l" >>, << "t", "h", "a", "t", " ", "w", "a", "s", " ", "a", " ", "m", "i", "s", "t", "a", "k", "e" >>, << "2", "5", "0", "m", "l", " ", "2", " ", "h", "o", "u", "r", "s", " ", "a", "g", "o" >> }

ChatRequests ==
  { [ method |-> "POST", secret |-> "none", body |-> [ kind |-> "text", text |-> t ] ] :
      t \in ChatTexts }

ChatOutcomes ==
  { [kind |-> "timeout"] }
    \cup { [kind |-> "content", content |-> [wrap |-> "raw", body |-> ObjectText(o)]] :
             o \in { ParsedObject("log", JNum(250), << "2", " ", "h", "o", "u", "r", "s", " ", "a", "g", "o" >>, JBool(FALSE), Undefined,
                                  JNull, JNull),
                     ParsedObject("undo", JNull, << >>, JBool(FALSE), Undefined, JNull, JNum(1)),
                     ParsedObject("undo", JNull, << >>, JBool(FALSE), Undefined, JNull, JNum(2)),
                     ParsedObject("edit", JNull, << >>, JBool(FALSE), Undefined, JNum(500), JNull),
                     ParsedObject("no_action", JNull, << >>, JBool(FALSE), Undefined, JNull, JNull),
                     ParsedObject("query", JNull, << >>, JBool(FALSE), Undefined, JNull, JNull),
                     ParsedObject("chitchat", JNull, << >>, JBool(FALSE), LLMText, JNull, JNull),
                     ParsedObject("clarify", JNull, << >>, JBool(TRUE), LLMText, JNull, JNull) } }

ChatInit ==
  /\ text = << >>
  /\ prefs \in { UserPrefs(b) : b \in BottleSizes }
  /\ apiKey \in BOOLEAN
  /\ now = ISTInstant(5, 12, 0)
  /\ callTime = now
  /\ pc = "idle"
  /\ fetchOutcome = NoOutcome
  /\ llmResult = NoLLMResult
  /\ parseResult = EmptyResult
  /\ llmCalls = 0
  /\ netRequests = 0
  /\ raised = FALSE
  /\ water_logs = << >>
  /\ reply = "none"
  /\ vrIn = 0
  /\ vrOut = NoTime
  /\ request = NoRequest
  /\ env = TokenOnlyEnv
  /\ response = 0
  /\ route = "none"
  /\ cron = "none"
  /\ sent = {}
  /\ canonicalUser = TRUE
  /\ tasks = NoTasks

ChatFetch == FetchFrom(ChatRequests)

ChatHandleTelegramUpdate == HandleTelegramUpdateWith(ChatOutcomes)

ChatNext ==
  \/ ChatFetch
  \/ ChatHandleTelegramUpdate

SpecChat == ChatInit /\ [][ChatNext]_vars

(***************************************************************************)
(* index.ts: the scheduled handler and the handlers of the cron triggers   *)
(***************************************************************************)
HourlyCron == "0 * * * *"
DailyCron  == "30 18 * * *"
\* a cron expression the worker does not route
OtherCron  == "*/5 * * * *"

\* nowIST().getUTCHours()
hourOfDay(t) == (nowIST(t) % MinutesPerDay) \div 60

\* handleDailySummary: the kinds of messages sent; user is FALSE when
\* getCanonicalUser returns null
handleDailySummary(user) == IF ~user THEN {} ELSE { "summary" }

\* handleLoveReminder: generateLoveMessage(env) ?? loveReminderFallback() is sent
handleLoveReminder(user) == IF ~user THEN {} ELSE { "love" }

\* variant: the reminder is sent at every hour
handlePeriodicReminder_NoQuietHours(user, t) == IF ~user THEN {} ELSE { "reminder" }

\* handlePeriodicReminder at instant t
handlePeriodicReminder(user, t) ==
  IF ~user THEN {}
  ELSE IF hourOfDay(t) >= 0 /\ hourOfDay(t) < 8 THEN {}
  ELSE { "reminder" }

\* scheduled(event, env, ctx): the kinds of messages sent for event.cron
scheduled(cronString, user, t) ==
  IF cronString = DailyCron THEN handleDailySummary(user)
  ELSE IF cronString = HourlyCron
    THEN handleLoveReminder(user) \cup handlePeriodicReminder(user, t)
  ELSE {}

(***************************************************************************)
(* The cron triggers over one day: the clock advances in half hours, the   *)
(* hourly trigger fires on the hour (UTC), the daily one at 18:30 UTC      *)
(***************************************************************************)
CronTickMinutes == 30
MaxCronTicks == 48

CronStrings == { HourlyCron, DailyCron, OtherCron }

\* the cron expression c is due at instant t
CronDue(c, t) ==
  IF c = HourlyCron THEN t % 60 = 0
  ELSE IF c = DailyCron THEN t % MinutesPerDay = 18 * 60 + 30
  ELSE t % 5 = 0

CronInit ==
  /\ text = << >>
  /\ prefs = UserPrefs(DefaultBottleSize)
  /\ apiKey \in BOOLEAN
  /\ now = ISTInstant(5, 5, 30)
  /\ callTime = now
  /\ pc = "clock"
  /\ fetchOutcome = NoOutcome
  /\ llmResult = NoLLMResult
  /\ parseResult = EmptyResult
  /\ llmCalls = 0
  /\ netRequests = 0
  /\ raised = FALSE
  /\ water_logs = << >>
  /\ reply = "none"
  /\ vrIn = 0
  /\ vrOut = NoTime
  /\ request = NoRequest
  /\ env = TokenOnlyEnv
  /\ response = 0
  /\ route = "none"
  /\ cron = "none"
  /\ sent = {}
  /\ canonicalUser \in BOOLEAN
  /\ tasks = NoTasks

CronTick ==
  /\ now < ISTInstant(5, 5, 30) + MaxCronTicks * CronTickMinutes
  /\ now' = now + CronTickMinutes
  /\ pc' = "clock"
  /\ UNCHANGED << text, prefs, apiKey, callTime, fetchOutcome, llmResult, parseResult,
                  llmCalls, netRequests, raised, water_logs, reply, vrIn, vrOut, webVars,
                  cronVars, tasks >>

\* a cron trigger that is due fires and scheduled runs, whole
Scheduled ==
  /\ \E c \in CronStrings :
       /\ CronDue(c, now)
       /\ cron' = c
       /\ sent' = scheduled(c, canonicalUser, now)
  /\ pc' = "scheduled"
  /\ UNCHANGED << text, prefs, apiKey, now, callTime, fetchOutcome, llmResult, parseResult,
                  llmCalls, netRequests, raised, water_logs, reply, vrIn, vrOut, webVars,
                  canonicalUser, tasks >>

CronNext ==
  \/ CronTick
  \/ Scheduled

SpecCron == CronInit /\ [][CronNext]_vars

(***************************************************************************)
(* Two updates of one chat handled concurrently: each runs                 *)
(* handleTelegramUpdate in its own ctx.waitUntil task, and the tasks       *)
(* interleave at every await of the database                               *)
(***************************************************************************)
\* a task about to run handleTelegramUpdate for a message text; user is the
\* row getOrCreateUser returned to it, result what parseWaterInput returned
NewTask(txt) == [ pc |-> "getOrCreateUser", text |-> txt, user |-> NewUser,
                  result |-> EmptyResult ]

\* the messages handled together with /start
RaceTexts == { << "5", "0", "0", "m", "l" >>, << "1", " ", "l", "i", "t", "e", "r" >>, << "c", "o", "f", "f", "e", "e", " ", "5", "0", "0", "m", "l" >>, << "t", "h", "a", "t", " ", "w", "a", "s", " ", "a", " ", "m", "i", "s", "t", "a", "k", "e" >> }

\* one row logged earlier today
EarlierRow(t) == [ amount_ml |-> 500, log_time |-> nowISTString(t), input_raw |-> << "5", "0", "0", "m", "l" >> ]

RaceInit ==
  /\ text = << >>
  /\ prefs \in { NewUser } \cup { UserPrefs(b) : b \in BottleSizes }
  /\ apiKey \in BOOLEAN
  /\ now = ISTInstant(5, 12, 0)
  /\ callTime = now
  /\ pc = "tasks"
  /\ fetchOutcome = NoOutcome
  /\ llmResult = NoLLMResult
  /\ parseResult = EmptyResult
  /\ llmCalls = 0
  /\ netRequests = 0
  /\ raised = FALSE
  /\ water_logs \in IF prefs.onboarding_complete = 1
                      THEN { << >>, << EarlierRow(now) >> } ELSE { << >> }
  /\ reply = "none"
  /\ vrIn = 0
  /\ vrOut = NoTime
  /\ request = NoRequest
  /\ env = TokenOnlyEnv
  /\ response = 0
  /\ route = "none"
  /\ cron = "none"
  /\ sent = {}
  /\ canonicalUser = TRUE
  /\ tasks \in { << NewTask(StartCommand), NewTask(t) >> : t \in RaceTexts }

\* what the task does after getOrCreateUser returned row p
AfterUser(p, txt) ==
  IF Route(p, txt) = "start" THEN "deleteAllWaterLogs"
  ELSE IF Route(p, txt) = "onboarding"
    THEN (IF parseBottleSizeResponse(txt) # NoBottleSize THEN "updateBottleSize" ELSE "done")
  ELSE IF Route(p, txt) = "excluded" THEN "done"
  ELSE "parseWaterInput"

RaceFrame ==
  UNCHANGED << text, apiKey, now, callTime, pc, fetchOutcome, llmResult, parseResult, llmCalls,
               netRequests, raised, reply, vrIn, vrOut, webVars, cronVars >>

\* await getOrCreateUser(env.DB, chatId) in handleTelegramUpdate
TaskGetOrCreateUser ==
  /\ \E i \in DOMAIN tasks :
       /\ tasks[i].pc = "getOrCreateUser"
       /\ tasks' = [tasks EXCEPT ![i].user = prefs, ![i].pc = AfterUser(prefs, tasks[i].text)]
  /\ UNCHANGED << prefs, water_logs >>
  /\ RaceFrame

\* await deleteAllWaterLogs(env.DB, chatId)
TaskDeleteAllWaterLogs ==
  /\ \E i \in DOMAIN tasks :
       /\ tasks[i].pc = "deleteAllWaterLogs"
       /\ tasks' = [tasks EXCEPT ![i].pc = "resetOnboarding"]
  /\ water_logs' = << >>
  /\ UNCHANGED prefs
  /\ RaceFrame

\* await resetOnboarding(env.DB, chatId), then the welcome reply
TaskResetOnboarding ==
  /\ \E i \in DOMAIN tasks :
       /\ tasks[i].pc = "resetOnboarding"
       /\ tasks' = [tasks EXCEPT ![i].pc = "done"]
  /\ prefs' = [prefs EXCEPT !.onboarding_complete = 0]
  /\ UNCHANGED water_logs
  /\ RaceFrame

\* await updateBottleSize(env.DB, chatId, bottleSize) in handleOnboardingResponse
TaskUpdateBottleSize ==
  /\ \E i \in DOMAIN tasks :
       /\ tasks[i].pc = "updateBottleSize"
       /\ tasks' = [tasks EXCEPT ![i].pc = "done"]
       /\ prefs' = [prefs EXCEPT !.bottle_size_ml = parseBottleSizeResponse(tasks[i].text),
                                 !.onboarding_complete = 1]
  /\ UNCHANGED water_logs
  /\ RaceFrame

\* handleWaterIntake: await getOrCreateUser, await parseWaterInput
TaskParseWaterInput ==
  /\ \E i \in DOMAIN tasks, outcome \in WebhookOutcomes :
       /\ tasks[i].pc = "parseWaterInput"
       /\ \E r \in { parseWaterInputGiven(tasks[i].text, prefs, apiKey, outcome, now) } :
            tasks' = [tasks EXCEPT ![i].result = r, ![i].pc = "handleResult"]
  /\ UNCHANGED << prefs, water_logs >>
  /\ RaceFrame

\* handleWaterIntake: the write of the branch taken (insertWaterLog or
\* deleteLastLogs), then the reply
TaskHandleResult ==
  /\ \E i \in DOMAIN tasks :
       /\ tasks[i].pc = "handleResult"
       /\ tasks' = [tasks EXCEPT ![i].pc = "done"]
       /\ water_logs' = HandledLogs(water_logs, tasks[i].result, tasks[i].text, now)
  /\ UNCHANGED prefs
  /\ RaceFrame

RaceNext ==
  \/ TaskGetOrCreateUser
  \/ TaskDeleteAllWaterLogs
  \/ TaskResetOnboarding
  \/ TaskUpdateBottleSize
  \/ TaskParseWaterInput
  \/ TaskHandleResult

SpecRace == RaceInit /\ [][RaceNext]_vars

(***************************************************************************)
(* Vocabulary of the properties                                            *)
(***************************************************************************)
\* parseWaterInput has returned
HasReturned == pc \in { "parsed", "handled" }

IsLog(r)      == r.success /\ IntentOf(r) = "log"
IsClarify(r)  == ~r.success /\ r.needs_clarification = JBool(TRUE)
IsEdit(r)     == r.success /\ r.intent = "edit"
IsNoAction(r) == r.success /\ r.intent = "no_action"

\* the blank-separated word w occurs in s
HasWord(s, w) ==
  \E p \in 0..Len(s) :
    /\ LitAt(s, p, w)
    /\ p = 0 \/ s[p] = " "
    /\ p + Len(w) = Len(s) \/ s[p + Len(w) + 1] = " "

\* the message says "yesterday" or "last night", in any letter case
SaysYesterday(txt) ==
  HasWord(toLowerCase(txt), << "y", "e", "s", "t", "e", "r", "d", "a", "y" >>) \/ HasWord(toLowerCase(txt), << "l", "a", "s", "t", " ", "n", "i", "g", "h", "t" >>)

\* the message names an amount: a number, or a bottle, glass or cup
NamesAmount(txt) ==
  \/ \E i \in DOMAIN txt : IsDigit(txt[i])
  \/ \E w \in { << "b", "o", "t", "t", "l", "e" >>, << "g", "l", "a", "s", "s" >>, << "c", "u", "p" >> } : includes(toLowerCase(txt), w)

\* the message holds one of the time-cue words, in any letter case
HasCueWord(txt) ==
  \E c \in { << "a", "g", "o" >>, << "e", "a", "r", "l", "i", "e", "r" >>, << "b", "e", "f", "o", "r", "e" >>, << "m", "o", "r", "n", "i", "n", "g" >>, << "a", "f", "t", "e", "r", "n", "o", "o", "n" >>, << "e", "v", "e", "n", "i", "n", "g" >>,
             << "h", "o", "u", "r" >>, << "m", "i", "n", "u", "t", "e" >> } : HasWord(toLowerCase(txt), c)

\* the message is exactly "<a>ml", a decimal numeral without leading zero
IsMlMessage(txt) ==
  /\ Len(txt) >= 3
  /\ SubSeq(txt, Len(txt) - 1, Len(txt)) = << "m", "l" >>
  /\ \A i \in 1..(Len(txt) - 2) : IsDigit(txt[i])
  /\ txt[1] # "0"

\* the amount a of a message "<a>ml"
MlOf(txt) == parseInt(SubSeq(txt, 1, Len(txt) - 2))

\* a timestamp has the shape 2026-01-DDTHH:mm:00+05:30
WellFormedIST(ts) ==
  /\ Len(ts) = 25
  /\ SubSeq(ts, 1, 8) = << "2", "0", "2", "6", "-", "0", "1", "-" >>
  /\ \A i \in { 9, 10, 12, 13, 15, 16 } : IsDigit(ts[i])
  /\ ts[11] = "T" /\ ts[14] = ":"
  /\ SubSeq(ts, 17, 25) = << ":", "0", "0", "+", "0", "5", ":", "3", "0" >>
  /\ parseInt(SubSeq(ts, 12, 13)) < 24
  /\ parseInt(SubSeq(ts, 15, 16)) < 60

\* the instant a well-formed timestamp names
InstantOf(ts) ==
  (parseInt(SubSeq(ts, 9, 10)) - 1) * 1440 + parseInt(SubSeq(ts, 12, 13)) * 60
    + parseInt(SubSeq(ts, 15, 16)) - 330

\* the instant of 00:00:00+05:30 of the IST day that holds instant t
ISTMidnightOf(t) == CHOOSE m \in (t - 1439)..t : (m + 330) % 1440 = 0

\* the deterministic extractor's result for the message being handled
ExtractorResult == parseWaterInputRegex(text, prefs, callTime)

(***************************************************************************)
(* C1 (stated as claimed; the code violates it): a message that says       *)
(* "yesterday" or "last night" and names an amount never yields a Log      *)
(* result of parseWaterInput.                                              *)
(***************************************************************************)
C1_YesterdayNeverLogs ==
  (HasReturned /\ SaysYesterday(text) /\ NamesAmount(text)) => ~IsLog(parseResult)

(***************************************************************************)
(* C2 (stated as claimed; the code violates it): a message that negates an *)
(* intake and names an amount ("I didn't drink 500ml") never yields Log,   *)
(* yields Clarify when no credential is configured, and leaves water_logs  *)
(* without a new row.                                                      *)
(***************************************************************************)
C2_NegationNeverLogs ==
  (LitAt(text, 0, << "I", " ", "d", "i", "d", "n", "'", "t", " ", "d", "r", "i", "n", "k" >>) /\ NamesAmount(text)) =>
    /\ HasReturned => ~IsLog(parseResult)
    /\ (HasReturned /\ ~apiKey) => IsClarify(parseResult)
    /\ pc = "handled" => water_logs = << >>

(***************************************************************************)
(* C3 (stated as claimed; the code violates it): "reduce by <a>ml" with a  *)
(* in (0, 10000], the fallback not classifying it as anything but edit     *)
(* with adjust_by_ml = a, yields Edit with adjust_by_ml = a and never Log. *)
(***************************************************************************)
C3_ReduceYieldsEdit ==
  \A a \in { 500, 10000 } :
    ( /\ HasReturned
      /\ apiKey
      /\ text = << "r", "e", "d", "u", "c", "e", " ", "b", "y", " " >> \o NumToString(a) \o << "m", "l" >>
      /\ llmResult # NoLLMResult =>
           llmResult.intent = "edit" /\ llmResult.adjust_by_ml = JNum(a) )
    => /\ ~IsLog(parseResult)
       /\ IsEdit(parseResult)
       /\ parseResult.adjust_by_ml = JNum(a)

(***************************************************************************)
(* C4 (stated as claimed; the code violates it): every Log result of       *)
(* parseWaterInput has amount_ml in (0, 10000], for every bottle size in   *)
(* 100..3000.                                                              *)
(***************************************************************************)
C4_LogAmountInRange ==
  (HasReturned /\ IsLog(parseResult)) =>
    /\ IsNumber(parseResult.amount_ml)
    /\ parseResult.amount_ml.n > 0
    /\ parseResult.amount_ml.n <= 10000

C7_LogTimeWithinTodayAnd12h ==
  (HasReturned /\ IsLog(parseResult)) =>
    /\ WellFormedIST(parseResult.log_time)
    /\ InstantOf(parseResult.log_time) >= ISTMidnightOf(now)
    /\ InstantOf(parseResult.log_time) <= now
    /\ InstantOf(parseResult.log_time) >= callTime - 12 * 60

C7_Witness ==
  /\ HasReturned
  /\ IsLog(parseResult)
  /\ InstantOf(parseResult.log_time) = callTime - 12 * 60
  /\ InstantOf(parseResult.log_time) = ISTMidnightOf(now)

(***************************************************************************)
(* C8: validateRetroactiveTime(h) returns the timestamp of now minus h     *)
(* hours for every h in [0, 12] whose target is not before today's IST     *)
(* midnight, and null for h > 12, h < 0 and targets before that midnight.  *)
(***************************************************************************)
C8_ValidateRetroactiveTime ==
  pc = "validated" =>
    IF vrIn >= 0 /\ vrIn <= 12 * 60 /\ now - vrIn >= ISTMidnightOf(now)
      THEN /\ vrOut # NoTime
           /\ WellFormedIST(vrOut)
           /\ InstantOf(vrOut) = now - vrIn
      ELSE vrOut = NoTime

C8_Witness ==
  /\ pc = "validated"
  /\ vrIn = 12 * 60
  /\ vrOut # NoTime
  /\ InstantOf(vrOut) = ISTMidnightOf(now)

(***************************************************************************)
(* C9: with no credential configured, extractWaterIntent returns intent    *)
(* clarify, ambiguous true, amount_ml null, and sends no request.          *)
(***************************************************************************)
C9_OfflineNoRequest ==
  ~apiKey =>
    /\ netRequests = 0
    /\ pc # "fetch"
    /\ fetchOutcome = NoOutcome
    /\ (llmCalls > 0 /\ pc # "extract") =>
         /\ llmResult.intent = "clarify"
         /\ llmResult.ambiguous = TRUE
         /\ llmResult.amount_ml = JNull

C9_Witness ==
  /\ ~apiKey
  /\ llmCalls = 1
  /\ pc = "parsed"
  /\ llmResult.intent = "clarify"
  /\ netRequests = 0

\* the fetch failed, or what it returned cannot be used: a transport error,
\* a timeout, a non-success status, an unreadable response, empty content,
\* or a content whose JSON text is malformed
FailedOutcome(o) ==
  \/ o.kind \in { "reject", "timeout", "status", "badjson", "empty" }
  \/ o.kind = "content" /\ o.content.body.json = "invalid"

(***************************************************************************)
(* C10: extractWaterIntent never raises; on a transport error, a timeout,  *)
(* a non-success status, empty content or malformed JSON it returns the    *)
(* safe default (clarify, ambiguous, amount null) and parseWaterInput      *)
(* returns Clarify with the generic prompt.                                *)
(***************************************************************************)
C10_FallbackNeverRaises ==
  /\ ~raised
  /\ pc # "raised"
  /\ (HasReturned /\ FailedOutcome(fetchOutcome)) =>
       /\ llmResult.intent = "clarify"
       /\ llmResult.ambiguous = TRUE
       /\ llmResult.amount_ml = JNull
       /\ IsClarify(parseResult)
       /\ parseResult.clarification_prompt = GenericPrompt

C10_Witness ==
  /\ HasReturned
  /\ fetchOutcome.kind = "timeout"
  /\ IsClarify(parseResult)
  /\ parseResult.clarification_prompt = GenericPrompt

(***************************************************************************)
(* C11: handling one message issues at most one request to the completion  *)
(* endpoint and calls extractWaterIntent at most once; a request that      *)
(* failed or timed out is not sent again.                                  *)
(***************************************************************************)
C11_AtMostOneRequest ==
  /\ netRequests <= 1
  /\ llmCalls <= 1
  /\ netRequests <= llmCalls
  /\ (fetchOutcome # NoOutcome) => (netRequests = 1 /\ pc # "fetch" /\ pc # "extract")

C11_Witness ==
  /\ pc = "handled"
  /\ fetchOutcome.kind = "timeout"
  /\ netRequests = 1
  /\ llmCalls = 1

\* the fields of a result other than success and intent that are set
SetFields(r) ==
  { f \in { "amount_ml", "needs_clarification", "adjust_by_ml", "undo_count" } :
      r[f] # JUndef }
    \cup (IF r.log_time # NoTime THEN { "log_time" } ELSE {})
    \cup (IF r.clarification_prompt # Undefined THEN { "clarification_prompt" } ELSE {})
    \cup (IF r.chitchat_reply # Undefined THEN { "chitchat_reply" } ELSE {})

\* the variants a result is a well-formed instance of
VariantsOf(r) ==
  { v \in { "Log", "Edit", "Undo", "Query", "NoAction", "Chitchat", "Clarify" } :
      CASE v = "Log" ->
             /\ r.success /\ r.intent \in { Undefined, "log" }
             /\ SetFields(r) = { "amount_ml", "log_time" }
             /\ IsNumber(r.amount_ml) /\ WellFormedIST(r.log_time)
        [] v = "Edit" ->
             /\ r.success /\ r.intent = "edit"
             /\ SetFields(r) = { "adjust_by_ml" } /\ IsNumber(r.adjust_by_ml)
        [] v = "Undo" ->
             /\ r.success /\ r.intent = "undo"
             /\ SetFields(r) = { "undo_count" } /\ IsNumber(r.undo_count)
        [] v = "Query" -> r.success /\ r.intent = "query" /\ SetFields(r) = {}
        [] v = "NoAction" -> r.success /\ r.intent = "no_action" /\ SetFields(r) = {}
        [] v = "Chitchat" ->
             r.success /\ r.intent = "chitchat" /\ SetFields(r) \subseteq { "chitchat_reply" }
        [] v = "Clarify" ->
             /\ ~r.success /\ r.intent = Undefined
             /\ SetFields(r) = { "needs_clarification", "clarification_prompt" }
             /\ r.needs_clarification = JBool(TRUE) }

(***************************************************************************)
(* C12: parseWaterInput never raises, and what it returns is a well-formed *)
(* instance of exactly one of Log, Edit, Undo, Query, NoAction, Chitchat   *)
(* and Clarify, with no field of another variant set.                      *)
(***************************************************************************)
C12_ExactlyOneVariant ==
  /\ ~raised /\ pc # "raised"
  /\ HasReturned => Cardinality(VariantsOf(parseResult)) = 1

C12_Witness ==
  /\ HasReturned
  /\ llmCalls = 1
  /\ VariantsOf(parseResult) = { "Chitchat" }
  /\ parseResult.chitchat_reply = LLMText

(***************************************************************************)
(* C13: for a fallback outcome with intent undo, the Undo result's count   *)
(* is in 1..10: the outcome's undo_count when that is in 1..10, 10 when it *)
(* is larger, 1 when it is missing, null or below 1.                       *)
(***************************************************************************)
C13_UndoCountClamped ==
  ( /\ HasReturned /\ llmResult # NoLLMResult /\ llmResult.intent = "undo"
    /\ ~(SaysYesterday(text) /\ NotNullish(llmResult.amount_ml)) ) =>
    /\ VariantsOf(parseResult) = { "Undo" }
    /\ parseResult.undo_count.n \in 1..10
    /\ LET u == llmResult.undo_count
       IN  parseResult.undo_count.n =
             IF ~IsNumber(u) \/ u.n < 1 THEN 1 ELSE IF u.n > 10 THEN 10 ELSE u.n

C13_Witness ==
  /\ pc = "handled"
  /\ llmResult # NoLLMResult /\ llmResult.intent = "undo"
  /\ llmResult.undo_count = JNum(11)
  /\ parseResult.undo_count = JNum(10)

\* the fallback has produced an outcome for the message being handled
HasOutcome == llmResult # NoLLMResult

\* the "yesterday" rule applies: the message says yesterday or last night
\* and the outcome leans to a log (intent log, or an amount present)
YesterdayOverride ==
  SaysYesterday(text) /\ (llmResult.intent = "log" \/ NotNullish(llmResult.amount_ml))

\* a number in (0, 10000]
InAmountRange(v) == IsNumber(v) /\ v.n > 0 /\ v.n <= 10000

C15_PassThroughAlways ==
  (HasReturned /\ HasOutcome /\ llmResult.intent \in { "no_action", "chitchat", "query" }) =>
    /\ parseResult.success
    /\ parseResult.intent = llmResult.intent

(***************************************************************************)
(* C15 (amended): when the fallback outcome's intent is no_action,         *)
(* chitchat or query, the result is the NoAction, Chitchat or Query        *)
(* variant whatever ambiguous is, and whatever amount_ml is unless the     *)
(* message says "yesterday" or "last night" and amount_ml is not null: the *)
(* result is then the "yesterday" Clarify.                                 *)
(***************************************************************************)
C15_PassThroughUnlessYesterday ==
  (HasReturned /\ HasOutcome /\ llmResult.intent \in { "no_action", "chitchat", "query" }) =>
    IF YesterdayOverride
      THEN IsClarify(parseResult) /\ parseResult.clarification_prompt = YesterdayPrompt
      ELSE /\ parseResult.success
           /\ parseResult.intent = llmResult.intent
           /\ parseResult.amount_ml = JUndef
           /\ parseResult.needs_clarification = JUndef

C15_Witness ==
  /\ pc = "handled"
  /\ HasOutcome
  /\ llmResult.intent = "no_action"
  /\ llmResult.amount_ml = JNum(500)
  /\ llmResult.ambiguous
  /\ IsNoAction(parseResult)
  /\ water_logs = << >>

(***************************************************************************)
(* C16: with no credential configured, every message the deterministic     *)
(* stage does not fully resolve (no match, or a match with a time cue)     *)
(* yields Clarify with the hint prompt; the result is never Edit, Undo,    *)
(* Query, NoAction or Chitchat, and a Log is always stamped now.           *)
(***************************************************************************)
C16_OfflineClarifiesWithHint ==
  (~apiKey /\ HasReturned) =>
    /\ (~ExtractorResult.success \/ HasCueWord(text)) =>
         /\ llmCalls = 1
         /\ IsClarify(parseResult)
         /\ parseResult.clarification_prompt = OfflinePrompt
    /\ VariantsOf(parseResult) \subseteq { "Log", "Clarify" }
    /\ IsLog(parseResult) => parseResult.log_time = toISTString(now)

C16_Witness ==
  /\ ~apiKey
  /\ pc = "handled"
  /\ text = << "5", "0", "0", "m", "l", " ", "2", " ", "h", "o", "u", "r", "s", " ", "a", "g", "o" >>
  /\ ExtractorResult.success
  /\ parseResult.clarification_prompt = OfflinePrompt
  /\ water_logs = << >>

\* the message holds a number with a unit that is out of range: an ml or
\* liter amount outside (0, 10000], a bottle count outside 1..10 or a glass
\* count outside 1..20
OutOfRangePhrases ==
  { << "0", "m", "l" >>, << "1", "0", "0", "0", "1", "m", "l" >>, << "1", "1", " ", "l", "i", "t", "r", "e", "s" >>, << "1", "1", " ", "b", "o", "t", "t", "l", "e", "s" >>, << "1", "1", " ", "b", "o", "t", "t", "l", "e" >>, << "2", "1", " ", "g", "l", "a", "s", "s", "e", "s" >> }

HasOutOfRangeNumber(txt) == \E ph \in OutOfRangePhrases : HasWord(toLowerCase(txt), ph)

(***************************************************************************)
(* C18 (stated as claimed; the code violates it): for a message whose      *)
(* numeric match is out of range, parseWaterInputRegex reports no match    *)
(* and parseWaterInput escalates to the fallback instead of returning a    *)
(* Log of the deterministic stage.                                         *)
(***************************************************************************)
C18_OutOfRangeIsNoMatch ==
  (HasOutOfRangeNumber(text) /\ pc # "start") =>
    /\ ~ExtractorResult.success
    /\ llmCalls = 1
    /\ HasReturned => HasOutcome

\* the message holds an excluded-beverage keyword as a word of its own, in
\* any letter case
NamesExcludedBeverage(txt) ==
  \E w \in { << "c", "o", "f", "f", "e", "e" >>, << "t", "e", "a" >>, << "l", "a", "t", "t", "e" >>, << "c", "a", "p", "p", "u", "c", "c", "i", "n", "o" >>, << "e", "s", "p", "r", "e", "s", "s", "o" >>, << "s", "o", "d", "a" >>, << "c", "o", "k", "e" >>,
             << "c", "o", "l", "a" >>, << "j", "u", "i", "c", "e" >>, << "b", "e", "e", "r" >>, << "w", "i", "n", "e" >>, << "a", "l", "c", "o", "h", "o", "l" >> } : HasWord(toLowerCase(txt), w)

\* this step is a run of handleTelegramUpdate on a text message
HandlesText == pc = "update" /\ pc' = "idle" /\ text # << >>

PassesGate ==
  /\ request.method = "POST"
  /\ env.TELEGRAM_WEBHOOK_SECRET => request.secret = "right"

C20_OnboardingNeverLogs ==
  [][ (HandlesText /\ prefs.onboarding_complete = 0) =>
        /\ Len(water_logs') <= Len(water_logs)
        /\ route' # "intake"
        /\ parseResult' = EmptyResult
        /\ (text # StartCommand /\ route' # "error") =>
             /\ water_logs' = water_logs
             /\ \/ /\ reply' = "bottleConfirmedReply"
                   /\ prefs'.onboarding_complete = 1
                   /\ prefs'.bottle_size_ml >= 100 /\ prefs'.bottle_size_ml <= 3000
                \/ /\ reply' = "bottleSizePrompt"
                   /\ prefs' = prefs ]_vars

C20_Witness ==
  /\ pc = "idle"
  /\ text = << "2", " ", "g", "l", "a", "s", "s", "e", "s" >>
  /\ route = "onboarding"
  /\ reply = "bottleSizePrompt"
  /\ prefs.onboarding_complete = 0
  /\ water_logs = << >>
  /\ response = 200

\* the hour of the IST wall clock at instant t
ISTHourOf(t) == ((t + 330) \div 60) % 24

(***************************************************************************)
(* C21: on every firing of the hourly cron '0 * * * *' with a canonical    *)
(* user present a love message is sent, and a hydration reminder is sent   *)
(* iff the IST hour is in 8..23 (never in 0..7); on '30 18 * * *' only the *)
(* daily summary is sent; any other cron string sends nothing.             *)
(***************************************************************************)
C21_CronRouting ==
  pc = "scheduled" =>
    /\ (cron = "0 * * * *" /\ canonicalUser) =>
         /\ "love" \in sent
         /\ "reminder" \in sent <=> ISTHourOf(now) \in 8..23
         /\ ISTHourOf(now) \in 0..7 => "reminder" \notin sent
         /\ "summary" \notin sent
    /\ cron = "30 18 * * *" => sent = IF canonicalUser THEN { "summary" } ELSE {}
    /\ cron \notin { "0 * * * *", "30 18 * * *" } => sent = {}

C21_Witness ==
  /\ pc = "scheduled"
  /\ cron = "0 * * * *"
  /\ canonicalUser
  /\ ISTHourOf(now) = 7
  /\ sent = { "love" }

\* the completion held a JSON object: the object
GotObject == fetchOutcome.kind = "content" /\ fetchOutcome.content.body.json = "object"
CompletionObject == fetchOutcome.content.body.obj

\* the closed set of intents
IntentKinds == { "log", "clarify", "no_action", "edit", "query", "undo", "chitchat" }

(***************************************************************************)
(* C22: the intent extractWaterIntent returns is always one of log,        *)
(* clarify, no_action, edit, query, undo, chitchat; an intent of the       *)
(* completion that is in this set is kept, and a missing or unknown one    *)
(* becomes clarify when ambiguous is truthy and log otherwise.             *)
(***************************************************************************)
C22_IntentNormalized ==
  HasOutcome =>
    /\ llmResult.intent \in IntentKinds
    /\ GotObject =>
         /\ CompletionObject.intent \in IntentKinds
              => llmResult.intent = CompletionObject.intent
         /\ (CompletionObject.intent \notin IntentKinds /\ Truthy(CompletionObject.ambiguous))
              => llmResult.intent = "clarify"
         /\ (CompletionObject.intent \notin IntentKinds /\ ~Truthy(CompletionObject.ambiguous))
              => llmResult.intent = "log"

C22_Witness ==
  /\ HasReturned
  /\ GotObject
  /\ CompletionObject.intent = Undefined
  /\ CompletionObject.ambiguous = JUndef
  /\ llmResult.intent = "log"
  /\ IsLog(parseResult)

\* the offsets, in minutes, of the relative-time phrases that name one
PhraseOffsets ==
  { << << "2", " ", "h", "o", "u", "r", "s", " ", "a", "g", "o" >>, 120 >>, << << "1", "2", " ", "h", "o", "u", "r", "s", " ", "a", "g", "o" >>, 720 >>, << << "1", "3", " ", "h", "o", "u", "r", "s", " ", "a", "g", "o" >>, 780 >>,
    << << "3", "0", " ", "m", "i", "n", "u", "t", "e", "s", " ", "a", "g", "o" >>, 30 >> }

\* the phrase of the outcome names an offset that lies within 12 hours and
\* within the IST day of the instant the result is made
RetroAccepted(off) ==
  /\ << llmResult.relative_time, off >> \in PhraseOffsets
  /\ off <= 720
  /\ now - off >= ISTMidnightOf(now)

\* all the conditions under which an outcome may be logged
Loggable ==
  /\ llmResult.intent = "log"
  /\ ~llmResult.ambiguous
  /\ InAmountRange(llmResult.amount_ml)
  /\ ~SaysYesterday(text)
  /\ llmResult.relative_time = << >> \/ \E off \in 0..720 : RetroAccepted(off)

(***************************************************************************)
(* C23: parseWaterInputLLM returns Log only when the normalized intent is  *)
(* log, ambiguous is false, amount_ml is a number in (0, 10000], the text  *)
(* has no yesterday / last-night cue and relative_time is absent (log_time *)
(* is now) or names an offset validateRetroactiveTime accepts (log_time is *)
(* now minus the offset); the Log carries that amount; in every other case *)
(* of a log intent the result is a Clarify.                                *)
(***************************************************************************)
C23_LogOnlyWhenValid ==
  (HasReturned /\ HasOutcome) =>
    /\ IsLog(parseResult) =>
         /\ Loggable
         /\ parseResult.amount_ml = llmResult.amount_ml
         /\ WellFormedIST(parseResult.log_time)
         /\ llmResult.relative_time = << >> => InstantOf(parseResult.log_time) = now
         /\ \A off \in 0..720 :
              RetroAccepted(off) => InstantOf(parseResult.log_time) = now - off
    /\ (llmResult.intent = "log" /\ Loggable) => IsLog(parseResult)
    /\ (llmResult.intent = "log" /\ ~Loggable) => IsClarify(parseResult)

C23_Witness ==
  /\ HasReturned
  /\ HasOutcome
  /\ IsLog(parseResult)
  /\ llmResult.relative_time = << "3", "0", " ", "m", "i", "n", "u", "t", "e", "s", " ", "a", "g", "o" >>
  /\ llmResult.amount_ml = JNum(500)
  /\ InstantOf(parseResult.log_time) = now - 30

\* the message carries a relative-time qualifier: "ago", "earlier", or an
\* hour or minute word, singular or plural, in any letter case
HasRelativeTimeWord(txt) ==
  \E w \in { << "a", "g", "o" >>, << "e", "a", "r", "l", "i", "e", "r" >>, << "h", "o", "u", "r" >>, << "h", "o", "u", "r", "s" >>, << "m", "i", "n", "u", "t", "e" >>, << "m", "i", "n", "u", "t", "e", "s" >> } :
    HasWord(toLowerCase(txt), w)

(***************************************************************************)
(* C24 (stated as claimed; the code violates it): a message whose amount   *)
(* the deterministic extractor resolves and that carries "ago", "earlier"  *)
(* or an hour / minute word, singular or plural, is routed to the          *)
(* fallback: parseWaterInput never returns the extractor's Log, stamped    *)
(* with now, for it.                                                       *)
(***************************************************************************)
C24_TimeWordNeverDeterministic ==
  (HasReturned /\ ExtractorResult.success /\ HasRelativeTimeWord(text)) =>
    /\ llmCalls = 1
    /\ parseResult # ExtractorResult

(***************************************************************************)
(* C25: after a /start message has been handled the user's water_logs are  *)
(* empty and onboarding_complete is 0, whatever the state before it        *)
(* (onboarding pending or complete, any number of logs), and the next      *)
(* message that is not /start is handled as an onboarding (bottle size)    *)
(* response.                                                               *)
(***************************************************************************)
C25_StartResets ==
  [][ /\ (HandlesText /\ text = StartCommand /\ route' # "error") =>
           /\ route' = "start"
           /\ water_logs' = << >>
           /\ prefs'.onboarding_complete = 0
           /\ reply' = "welcomeReply"
      /\ (HandlesText /\ route = "start" /\ text # StartCommand /\ route' # "error") =>
           /\ route' = "onboarding"
           /\ water_logs' = << >>
           /\ parseResult' = EmptyResult ]_vars

C25_Witness ==
  /\ pc = "idle"
  /\ route = "onboarding"
  /\ text = << "2", " ", "g", "l", "a", "s", "s", "e", "s" >>
  /\ reply = "bottleSizePrompt"
  /\ prefs.onboarding_complete = 0
  /\ prefs.bottle_size_ml = 500
  /\ water_logs = << >>

\* the Undo this step handles, and its count
HandlesUndo ==
  HandlesText /\ route' = "intake" /\ parseResult'.success /\ parseResult'.intent = "undo"

Smaller(a, b) == IF a < b THEN a ELSE b

(***************************************************************************)
(* C26 (stated as claimed; the code violates it): Undo{count = n} removes  *)
(* the n most recently added entries of water_logs, as many as are stored; *)
(* an undo of count 1 right after a logged message removes the entry that  *)
(* message inserted, also when it was logged with a retroactive timestamp  *)
(* earlier than the log_time of entries already stored.                    *)
(***************************************************************************)
C26_UndoRemovesNewest ==
  [][ HandlesUndo =>
        LET n == parseResult'.undo_count.n
            removed == Smaller(n, Len(water_logs))
        IN  /\ water_logs' = SubSeq(water_logs, 1, Len(water_logs) - removed)
            /\ reply' = IF removed = 0 THEN "undoNothingReply" ELSE "undoReply" ]_vars

\* the sum getTodayTotal returns now
TodayTotal == getTodayTotal(water_logs, now)

(***************************************************************************)
(* C27 (stated as claimed; the code violates it): after any sequence of    *)
(* log, edit and undo messages the user's total for today, the sum of      *)
(* amount_ml of today's rows that getTodayTotal returns, is never          *)
(* negative.                                                               *)
(***************************************************************************)
C27_TotalNeverNegative == TodayTotal >= 0

\* the kind of result this step of handleTelegramUpdate handled
Parsed(kind) == route' = "intake" /\ parseResult'.success /\ IntentOf(parseResult') = kind

\* seq is what is left of logs after some rows were taken out
RowsLeft(seq, logs) ==
  \E keep \in SUBSET DOMAIN logs :
    /\ Len(seq) = Cardinality(keep)
    /\ \A i \in DOMAIN seq :
         \E k \in keep : seq[i] = logs[k] /\ Cardinality({ j \in keep : j <= k }) = i

(***************************************************************************)
(* C29: handling a message whose parse result is Clarify, NoAction,        *)
(* Chitchat or Query, or that is rejected as an excluded beverage, leaves  *)
(* water_logs and the user's preferences unchanged.  A Log inserts one row *)
(* with the parsed amount and log_time, an Edit one row with the amount    *)
(* -adjust_by_ml, an Undo only deletes rows; no other parse result         *)
(* changes water_logs, no message inserts more than one row, and none of   *)
(* them changes the preferences.  (/start, which has no parse result,      *)
(* is not among these messages.)                                           *)
(***************************************************************************)
C29_FrameOfHandling ==
  [][ HandlesText =>
        /\ ( \/ route' = "excluded"
             \/ route' = "intake" /\ ~parseResult'.success
             \/ Parsed("no_action") \/ Parsed("chitchat") \/ Parsed("query") )
             => water_logs' = water_logs /\ prefs' = prefs
        /\ Parsed("log") =>
             /\ water_logs' = Append(water_logs, [ amount_ml |-> parseResult'.amount_ml.n,
                                                   log_time |-> parseResult'.log_time,
                                                   input_raw |-> text ])
             /\ parseResult'.amount_ml.n > 0
        /\ Parsed("edit") =>
             /\ Len(water_logs') = Len(water_logs) + 1
             /\ SubSeq(water_logs', 1, Len(water_logs)) = water_logs
             /\ water_logs'[Len(water_logs')].amount_ml = 0 - parseResult'.adjust_by_ml.n
             /\ water_logs'[Len(water_logs')].log_time = toISTString(now)
        /\ Parsed("undo") => RowsLeft(water_logs', water_logs)
        /\ route' = "intake" => prefs' = prefs
        /\ (route' # "start" /\ water_logs' # water_logs)
             => Parsed("log") \/ Parsed("edit") \/ Parsed("undo")
        /\ Len(water_logs') <= Len(water_logs) + 1 ]_vars

C29_Witness ==
  /\ pc = "idle"
  /\ route = "intake"
  /\ text = << "t", "h", "a", "t", " ", "w", "a", "s", " ", "a", " ", "m", "i", "s", "t", "a", "k", "e" >>
  /\ parseResult.success /\ parseResult.intent = "query"
  /\ reply = "queryReply"
  /\ Len(water_logs) = 2
  /\ water_logs[2].amount_ml = 0 - 500

\* both tasks have finished
Quiescent == tasks # NoTasks /\ \A i \in DOMAIN tasks : tasks[i].pc = "done"

(***************************************************************************)
(* C28 (stated as claimed; the code violates it): when a /start and a      *)
(* water-intake message of the same chat are handled concurrently, their   *)
(* steps interleaved at every database await, the store is never left,     *)
(* once both have finished, with onboarding_complete 0 and a non-empty     *)
(* water_logs.                                                             *)
(***************************************************************************)
C28_NoLogsWhileOnboarding ==
  Quiescent => ~(prefs.onboarding_complete = 0 /\ water_logs # << >>)

\* three instants of the IST day of t: its first minute, t, its last minute
DayInstants(t) == { ISTMidnightOf(t), t, ISTMidnightOf(t) + MinutesPerDay - 1 }

\* timestamp ts lies in the IST day of t by string comparison
InDayOf(ts, t) ==
  /\ StrGeq(ts, todayMidnightISTString(t))
  /\ StrLess(ts, todayMidnightISTString(t + MinutesPerDay))

\* row is counted by today's queries at t and not by yesterday's
CountedToday(row, t) ==
  /\ getTodayTotal(<< row >>, t) = row.amount_ml
  /\ getTodayLogs(<< row >>, t) = { 1 }
  /\ getYesterdayTotal(<< row >>, t) = 0

\* row is counted by yesterday's query at t and not by today's
CountedYesterday(row, t) ==
  /\ getYesterdayTotal(<< row >>, t) = row.amount_ml
  /\ getTodayTotal(<< row >>, t) = 0
  /\ getTodayLogs(<< row >>, t) = { }

\* row is counted by no query at t
CountedNowhere(row, t) ==
  /\ getYesterdayTotal(<< row >>, t) = 0
  /\ getTodayTotal(<< row >>, t) = 0
  /\ getTodayLogs(<< row >>, t) = { }

(***************************************************************************)
(* C30: the log_time of every Log result compares, as a string, greater    *)
(* than or equal to todayMidnightISTString() of the instant the result is  *)
(* made and less than the next day's midnight string; a row stored by the  *)
(* message is counted by getTodayTotal and getTodayLogs (and not by        *)
(* getYesterdayTotal) throughout that IST day, by getYesterdayTotal alone  *)
(* throughout the following IST day, and by none of them the day after.    *)
(***************************************************************************)
C30_LogTimeWithinToday ==
  /\ (pc \in { "parsed", "handled" } /\ IsLog(parseResult)) => InDayOf(parseResult.log_time, now)
  /\ \A i \in DOMAIN water_logs :
       /\ InDayOf(water_logs[i].log_time, now)
       /\ \A t \in DayInstants(now) :
            /\ CountedToday(water_logs[i], t)
            /\ CountedYesterday(water_logs[i], t + MinutesPerDay)
            /\ CountedNowhere(water_logs[i], t + 2 * MinutesPerDay)

\* a retroactive log made at 00:30 IST for "30 minutes ago" is stored with
\* the day's midnight string itself as its log_time
C30_Witness ==
  /\ pc = "handled"
  /\ IsLog(parseResult)
  /\ Len(water_logs) = 1
  /\ water_logs[1].log_time = todayMidnightISTString(now)
  /\ water_logs[1].log_time # nowISTString(now)

====
